---------------------------- MODULE Spec2Model ----------------------------
(***************************************************************************)
(* A model of the palo Alto simulator (src/src/simulator/simulator.c) and  *)
(* of its UDP transport (src/unnamed/part_002, gui/udp_transport.c).       *)
(*                                                                         *)
(* The simulator is a record `sim` holding the fields of struct simulator; *)
(* every C function of the step pipeline is an operator from records to    *)
(* records, composed in the order simulator_step calls them.               *)
(***************************************************************************)
EXTENDS Integers, Sequences, FiniteSets, TLC

VARIABLES
    sim,        \* struct simulator (the CPU state)
    microcode,  \* the microcode store, as far as it has been fetched
    hist,       \* the last operation and the state it started from
    env,        \* which inputs the environment offers (instruction set)
    fx,         \* operands and results of the pure datapath functions
    udp,        \* the UDP transport, its two threads and the network
    ps          \* struct psim: the heap, the debugger and its breakpoints

vars == <<sim, microcode, hist, env, fx, udp, ps>>

cpuVars == <<sim, microcode, hist, env, fx, ps>>

(***************************************************************************)
(* 16-bit machine words and the C bit operators.                           *)
(***************************************************************************)
W16 == 2^16

RECURSIVE BitAnd(_, _)
BitAnd(a, b) ==
    IF a = 0 \/ b = 0 THEN 0
    ELSE (a % 2) * (b % 2) + 2 * BitAnd(a \div 2, b \div 2)

RECURSIVE BitOr(_, _)
BitOr(a, b) ==
    IF a = 0 THEN b
    ELSE IF b = 0 THEN a
    ELSE (IF (a % 2) + (b % 2) > 0 THEN 1 ELSE 0)
         + 2 * BitOr(a \div 2, b \div 2)

RECURSIVE BitXor(_, _)
BitXor(a, b) ==
    IF a = 0 THEN b
    ELSE IF b = 0 THEN a
    ELSE ((a + b) % 2) + 2 * BitXor(a \div 2, b \div 2)

\* ~x on a uint16_t operand, truncated to 16 bits.
BitNot16(a) == (W16 - 1) - a

\* x >> n and (uint16_t)(x << n)
Shr(a, n) == a \div (2^n)
Shl16(a, n) == (a * (2^n)) % W16

\* bit n of x, as 0 or 1
Bit(a, n) == (a \div (2^n)) % 2

(***************************************************************************)
(* Sparse arrays: an array that is zero except at the indices of its       *)
(* domain (memset(.., 0, ..) gives the empty one).  Kept canonical: a zero *)
(* is never stored.                                                        *)
(***************************************************************************)
ArrGet(arr, k) == IF k \in DOMAIN arr THEN arr[k] ELSE 0

ArrPut(arr, k, v) ==
    IF v = 0
    THEN [x \in (DOMAIN arr) \ {k} |-> arr[x]]
    ELSE [x \in (DOMAIN arr) \cup {k} |-> IF x = k THEN v ELSE arr[x]]

EmptyArr == [x \in {} |-> 0]

(***************************************************************************)
(* Constants of simulator.c.                                               *)
(***************************************************************************)
NUM_R_REGISTERS == 32

NUM_S_REGISTERS == 8 * NUM_R_REGISTERS
MPC_BANK_MASK == 3072
MPC_ADDR_MASK == 1023
XM_BANK_START == 65504
TASK_NUM_TASKS == 16
NUM_BANK_SLOTS == TASK_NUM_TASKS

(***************************************************************************)
(* The microinstruction fields and their codes (microcode/microcode.h):    *)
(* RSEL(5) ALUF(4) BS(3) F1(4) F2(4) T L NEXT(10).  Codes 3 and 4 of BS and *)
(* codes 8..15 of F1 and F2 are task specific, so several names share a    *)
(* code.                                                                   *)
(***************************************************************************)
BS == [READ_R |-> 0, LOAD_R |-> 1, NONE |-> 2,
       RAM_READ_S_LOCATION |-> 3, RAM_LOAD_S_LOCATION |-> 4,
       DSK_READ_KSTAT |-> 3, DSK_READ_KDATA |-> 4, ETH_EIDFCT |-> 4,
       READ_MD |-> 5, READ_MOUSE |-> 6, READ_DISP |-> 7]

F1 == [NONE |-> 0, LOAD_MAR |-> 1, TASK |-> 2, BLOCK |-> 3,
       LLSH1 |-> 4, LRSH1 |-> 5, LLCY8 |-> 6, CONST |-> 7,
       SPECIFIC_THRESH |-> 8,
       RAM_SWMODE |-> 8, RAM_WRTRAM |-> 9, RAM_RDRAM |-> 10,
       RAM_LOAD_SRB |-> 11,
       EMU_SWMODE |-> 8, EMU_LOAD_RMR |-> 11, EMU_LOAD_ESRB |-> 13,
       EMU_RSNF |-> 14, EMU_STARTF |-> 15,
       ETH_EILFCT |-> 11, ETH_EPFCT |-> 12]

F2 == [NONE |-> 0, BUSEQ0 |-> 1, SHLT0 |-> 2, SHEQ0 |-> 3, BUS |-> 4,
       ALUCY |-> 5, STORE_MD |-> 6, CONST |-> 7,
       EMU_BUSODD |-> 8, EMU_MAGIC |-> 9, EMU_LOAD_DNS |-> 10,
       EMU_ACDEST |-> 11, EMU_LOAD_IR |-> 12, EMU_IDISP |-> 13,
       EMU_ACSOURCE |-> 14]

ALU == [BUS |-> 0, T |-> 1, BUS_OR_T |-> 2, BUS_AND_T |-> 3,
        BUS_XOR_T |-> 4, BUS_PLUS_1 |-> 5, BUS_MINUS_1 |-> 6,
        BUS_PLUS_T |-> 7, BUS_MINUS_T |-> 8, BUS_MINUS_T_MINUS_1 |-> 9,
        BUS_PLUS_T_PLUS_1 |-> 10, BUS_PLUS_SKIP |-> 11,
        BUS_AND_T_WB |-> 12, BUS_AND_NOT_T |-> 13]

TASK == [EMULATOR |-> 0, DISK_SECTOR |-> 4, ETHERNET |-> 7,
         DISK_WORD |-> 14]

SYS == [ALTO_I |-> "ALTO_I", ALTO_II_3KRAM |-> "ALTO_II_3KRAM"]

\* A microcode word, by its fields.  The word 0 has every field 0.
Mir(rsel, aluf, bs, f1, f2, t, l, next) ==
    [rsel |-> rsel, aluf |-> aluf, bs |-> bs, f1 |-> f1, f2 |-> f2,
     load_t |-> t, load_l |-> l, next |-> next]

MirZero == Mir(0, 0, 0, 0, 0, FALSE, FALSE, 0)

MICROCODE_NEXT(mcode) == mcode.next

\* microcode_predecode(): the structured form of a word for the task that
\* executes it.
microcode_predecode(sys_type, mpc, mir, ctask) ==
    [task |-> ctask,
     rsel |-> mir.rsel, aluf |-> mir.aluf, bs |-> mir.bs,
     f1 |-> mir.f1, f2 |-> mir.f2,
     load_t |-> mir.load_t, load_l |-> mir.load_l, next |-> mir.next,
     use_constant |-> (mir.f1 = F1.CONST \/ mir.f2 = F2.CONST),
     bs_use_crom |-> (mir.bs >= BS.READ_MD),
     const_addr |-> mir.rsel * 8 + mir.bs,
     load_t_from_alu |->
         mir.aluf \in {ALU.BUS, ALU.BUS_OR_T, ALU.BUS_PLUS_1,
                       ALU.BUS_MINUS_1, ALU.BUS_PLUS_T_PLUS_1,
                       ALU.BUS_PLUS_SKIP, ALU.BUS_AND_T_WB},
     ram_task |-> (ctask = TASK.EMULATOR \/ sys_type = SYS.ALTO_II_3KRAM)]

(***************************************************************************)
(* simulator_reset().  xm_banks has one entry more than the array of the   *)
(* program: entry NUM_BANK_SLOTS is the word that follows the allocation,  *)
(* which simulator_read and simulator_write reach at address               *)
(* XM_BANK_START + NUM_BANK_SLOTS and which no memset clears.              *)
(***************************************************************************)
simulator_reset(s) ==
    [s EXCEPT
        !.r = [i \in 0..(NUM_R_REGISTERS - 1) |-> 0],
        !.s = EmptyArr,
        !.mem = EmptyArr,
        !.xm_banks = [i \in 0..NUM_BANK_SLOTS |->
                        IF i < NUM_BANK_SLOTS THEN 0 ELSE s.xm_banks[i]],
        !.sr_banks = [i \in 0..(NUM_BANK_SLOTS - 1) |-> 0],
        !.task_mpc = [task \in 0..(TASK_NUM_TASKS - 1) |-> task],
        !.error = FALSE,
        !.t = 0, !.l = 0, !.m = 0, !.mar = 0, !.ir = 0,
        !.mir = MirZero, !.mpc = 0, !.ctask = 0, !.ntask = 0,
        !.pending = 2^TASK.EMULATOR,
        !.aluC0 = FALSE, !.skip = FALSE, !.carry = FALSE, !.dns = FALSE,
        !.rmr = 65535,
        !.mem_cycle = 0,
        !.mem_task = TASK.EMULATOR,
        !.mem_low = 65535, !.mem_high = 65535,
        !.mem_extended = FALSE,
        !.mem_which = 0,
        !.cycle = 0, !.next_cycle = 0]

\* The bank of main memory an access of `task` goes to.
bank_number(s, task, extended_memory) ==
    IF extended_memory
    THEN s.xm_banks[task] % 4
    ELSE Shr(s.xm_banks[task], 2) % 4

\* The test of simulator_read and simulator_write for a bank register.
is_xm_bank(address) ==
    address >= XM_BANK_START /\ address <= XM_BANK_START + NUM_BANK_SLOTS

simulator_read(s, address, task, extended_memory) ==
    IF is_xm_bank(address)
    THEN BitOr(65520, s.xm_banks[address - XM_BANK_START])
    ELSE ArrGet(s.mem, <<bank_number(s, task, extended_memory), address>>)

simulator_write(s, address, data, task, extended_memory) ==
    IF is_xm_bank(address)
    THEN [s EXCEPT !.xm_banks[address - XM_BANK_START] = data]
    ELSE [s EXCEPT !.mem =
            ArrPut(s.mem,
                   <<bank_number(s, task, extended_memory), address>>,
                   data)]


(***************************************************************************)
(* The step pipeline.                                                      *)
(***************************************************************************)
get_modified_rsel(s, mc) ==
    IF mc.task = TASK.EMULATOR
    THEN IF mc.f2 = F2.EMU_ACSOURCE
         THEN (mc.rsel - (mc.rsel % 4)) + (3 - (Shr(s.ir, 13) % 4))
         ELSE IF mc.f2 = F2.EMU_ACDEST \/ mc.f2 = F2.EMU_LOAD_DNS
              THEN (mc.rsel - (mc.rsel % 4)) + (3 - (Shr(s.ir, 11) % 4))
              ELSE mc.rsel
    ELSE mc.rsel

\* mouse_poll_bits() of the mouse controller: the bits the mouse shows.
mouse_poll_bits(s) == s.mous_bits

\* The value <-DISP puts on the bus.
read_disp(ir) ==
    IF BitAnd(ir, 768) # 0 /\ BitAnd(ir, 128) # 0
    THEN BitOr(BitAnd(ir, 255), 65280)
    ELSE BitAnd(ir, 255)

\* read_bus(): the bus and the state it leaves (mem_which, error).
read_bus(s, mc, modified_rsel) ==
    LET output == IF mc.bs_use_crom THEN s.consts[mc.const_addr] ELSE 65535
        ok(v) == [sim |-> s, bus |-> v]
        bad == [sim |-> [s EXCEPT !.error = TRUE], bus |-> 0]
    IN  IF mc.use_constant THEN ok(s.consts[mc.const_addr])
        ELSE IF mc.bs = BS.READ_R
            THEN ok(BitAnd(output, s.r[modified_rsel]))
        ELSE IF mc.bs = BS.LOAD_R
            THEN ok(0)
        ELSE IF mc.bs = BS.NONE
            THEN IF mc.task = TASK.EMULATOR /\ mc.f1 = F1.EMU_RSNF
                 THEN ok(BitAnd(output, BitAnd(s.ether_address, 65280)))
                 ELSE ok(output)
        ELSE IF mc.bs = BS.READ_MD
            THEN [sim |-> [s EXCEPT !.mem_which = 1 - s.mem_which],
                  bus |-> IF s.mem_which # 0 THEN s.mem_high ELSE s.mem_low]
        ELSE IF mc.bs = BS.READ_MOUSE
            THEN ok(BitAnd(output, BitAnd(65520, mouse_poll_bits(s))))
        ELSE IF mc.bs = BS.READ_DISP
            THEN ok(BitAnd(output, read_disp(s.ir)))
        ELSE IF mc.ram_task
            THEN IF mc.bs = BS.RAM_READ_S_LOCATION
                 THEN IF mc.rsel = 0
                      THEN ok(BitAnd(output, s.m))
                      ELSE ok(BitAnd(output,
                                ArrGet(s.s, s.sr_banks[mc.task]
                                            * NUM_R_REGISTERS + mc.rsel)))
                 ELSE IF mc.bs = BS.RAM_LOAD_S_LOCATION
                      THEN ok(BitAnd(output, 48879))
                      ELSE bad
        ELSE IF mc.task = TASK.ETHERNET /\ mc.bs = BS.ETH_EIDFCT
            THEN ok(output)
        ELSE IF (mc.task = TASK.DISK_SECTOR \/ mc.task = TASK.DISK_WORD)
                /\ (mc.bs = BS.DSK_READ_KSTAT \/ mc.bs = BS.DSK_READ_KDATA)
            THEN ok(output)
        ELSE bad

\* compute_alu(): the ALU output, its carry, and whether ALUF is invalid.
alu_minus_t_no_carry_in(a, b) == a + BitNot16(b)

\* compute_alu(): the 17-bit sum of ALU_BUS_MINUS_T
alu_minus_t(a, b) == a + BitNot16(b) + 1

\* Every code is taken for an ALU function.
alu_defined_any(f) == TRUE

\* compute_alu(): the codes its switch has a case for.
alu_defined(f) ==
    f \in {ALU.BUS, ALU.T, ALU.BUS_OR_T, ALU.BUS_AND_T, ALU.BUS_AND_T_WB,
           ALU.BUS_XOR_T, ALU.BUS_PLUS_1, ALU.BUS_MINUS_1, ALU.BUS_PLUS_T,
           ALU.BUS_MINUS_T, ALU.BUS_MINUS_T_MINUS_1,
           ALU.BUS_PLUS_T_PLUS_1, ALU.BUS_PLUS_SKIP, ALU.BUS_AND_NOT_T}

compute_alu(s, mc, bus) ==
    LET a == bus
        b == s.t
        f == mc.aluf
        defined == alu_defined(f)
        res ==
            CASE f = ALU.BUS -> a
              [] f = ALU.T -> b
              [] f = ALU.BUS_OR_T -> BitOr(a, b)
              [] f = ALU.BUS_AND_T \/ f = ALU.BUS_AND_T_WB -> BitAnd(a, b)
              [] f = ALU.BUS_XOR_T -> BitXor(a, b)
              [] f = ALU.BUS_PLUS_1 -> a + 1
              [] f = ALU.BUS_MINUS_1 -> a + 65535
              [] f = ALU.BUS_PLUS_T -> a + b
              [] f = ALU.BUS_MINUS_T -> alu_minus_t(a, b)
              [] f = ALU.BUS_MINUS_T_MINUS_1 -> a + BitNot16(b)
              [] f = ALU.BUS_PLUS_T_PLUS_1 -> a + b + 1
              [] f = ALU.BUS_PLUS_SKIP -> a + (IF s.skip THEN 1 ELSE 0)
              [] f = ALU.BUS_AND_NOT_T -> BitAnd(a, BitNot16(b))
              [] OTHER -> 0
    IN  IF defined
        THEN [alu |-> res % W16, carry |-> BitAnd(res, W16) # 0,
              error |-> FALSE]
        ELSE [alu |-> 57005, carry |-> FALSE, error |-> TRUE]

\* do_shift(): the shifter output and the nova carry it leaves in the
\* caller's local variable.  In the LRSH1 branch the C code tests the
\* pointer `nova_carry`, which is never null, so bit 15 is always set there.
shift_llsh1_nova(s, has_magic, nova_carry) ==
    IF has_magic
    THEN [res |-> Shl16(s.l, 1) + Bit(s.t, 15), nova_carry |-> nova_carry]
    ELSE [res |-> Shl16(s.l, 1) + (IF nova_carry THEN 1 ELSE 0),
          nova_carry |-> Bit(s.l, 15) = 1]

\* do_shift(): case F1_LLSH1
shift_llsh1(s, has_magic, nova_carry) ==
    IF has_magic
    THEN [res |-> Shl16(s.l, 1) + Bit(s.t, 15), nova_carry |-> nova_carry]
    ELSE IF s.dns
    THEN [res |-> Shl16(s.l, 1) + (IF nova_carry THEN 1 ELSE 0),
          nova_carry |-> Bit(s.l, 15) = 1]
    ELSE [res |-> Shl16(s.l, 1), nova_carry |-> nova_carry]

\* do_shift(): case F1_LRSH1
shift_lrsh1(s, has_magic, nova_carry) ==
    IF has_magic
    THEN [res |-> Shr(s.l, 1) + 32768 * Bit(s.t, 0),
          nova_carry |-> nova_carry]
    ELSE IF s.dns
    THEN [res |-> Shr(s.l, 1) + 32768, nova_carry |-> Bit(s.l, 0) = 1]
    ELSE [res |-> Shr(s.l, 1), nova_carry |-> nova_carry]

do_shift(s, mc, nova_carry) ==
    LET has_magic == (mc.f2 = F2.EMU_MAGIC)
    IN  IF mc.f1 = F1.LLSH1 THEN shift_llsh1(s, has_magic, nova_carry)
        ELSE IF mc.f1 = F1.LRSH1 THEN shift_lrsh1(s, has_magic, nova_carry)
        ELSE IF mc.f1 = F1.LLCY8
        THEN [res |-> Shl16(s.l, 8) + Shr(s.l, 8), nova_carry |-> nova_carry]
        ELSE [res |-> s.l, nova_carry |-> nova_carry]

\* The address LOAD_MAR and STORE_MD pair with `addr`.
pair_address_alto1(s, addr) == BitOr(addr, 1)

pair_address(s, addr) ==
    IF s.sys_type = SYS.ALTO_I THEN BitOr(1, addr) ELSE BitXor(1, addr)

\* The task F1=TASK switches to: the highest one with its pending bit set
\* (the loop of do_f1 leaves ntask alone when no bit is set).
highest_pending(s) ==
    LET set == {tmp \in 0..(TASK_NUM_TASKS - 1) : Bit(s.pending, tmp) = 1}
    IN  IF set = {} THEN s.ntask
        ELSE CHOOSE tmp \in set : \A o \in set : o <= tmp

\* The bank taken from the bus without the mask of three bits.
srb_value_unmasked(s, bus) == Shr(bus, 1)

\* The S register bank F1=LOAD_SRB and F1=LOAD_ESRB select.
srb_value(s, bus) ==
    IF s.sys_type # SYS.ALTO_II_3KRAM THEN 0 ELSE Shr(bus, 1) % 8

\* The part of do_f1() after its first switch: the RAM related functions
\* and the functions of the emulator task.
do_f1_specific(s, mc, bus) ==
    LET ram_error ==
            mc.ram_task /\ mc.f1 = F1.RAM_SWMODE /\ mc.task # TASK.EMULATOR
        s1 == IF mc.ram_task /\ mc.f1 = F1.RAM_LOAD_SRB
                 /\ mc.task # TASK.EMULATOR
              THEN [s EXCEPT !.sr_banks[mc.task] = srb_value(s, bus)]
              ELSE s
    IN  IF ram_error THEN [s EXCEPT !.error = TRUE]
        ELSE IF mc.task # TASK.EMULATOR THEN s1
        ELSE IF mc.f1 = F1.EMU_LOAD_RMR THEN [s1 EXCEPT !.rmr = bus]
        ELSE IF mc.f1 = F1.EMU_LOAD_ESRB
            THEN [s1 EXCEPT !.sr_banks[mc.task] = srb_value(s1, bus)]
        ELSE IF mc.f1 \in {F1.EMU_SWMODE, F1.EMU_RSNF, F1.EMU_STARTF}
            THEN s1
        ELSE IF mc.f1 >= F1.SPECIFIC_THRESH
            THEN [s1 EXCEPT !.error = TRUE]
        ELSE s1

\* F1=LOAD_MAR of do_f1(): MAR and the memory pipeline.
f1_load_mar(s, mc, alu) ==
    LET ext == IF s.sys_type # SYS.ALTO_I
               THEN mc.f2 = F2.STORE_MD ELSE FALSE
        s1 == [s EXCEPT !.mar = alu, !.mem_cycle = 0,
                        !.mem_task = mc.task,
                        !.mem_extended = ext, !.mem_which = 0]
    IN  [s1 EXCEPT
            !.mem_low = simulator_read(s1, alu, mc.task, ext),
            !.mem_high = simulator_read(s1, pair_address(s1, alu),
                                        mc.task, ext)]

f1_task_lowest(s, mc) ==
    LET set == {tmp \in 0..(TASK_NUM_TASKS - 1) : Bit(s.pending, tmp) = 1}
    IN  [s EXCEPT !.ntask = IF set = {} THEN s.ntask
                            ELSE CHOOSE tmp \in set : \A o \in set : tmp <= o]

\* F1=TASK of do_f1()
f1_task(s, mc) == [s EXCEPT !.ntask = highest_pending(s)]

f1_block_error_clears(s, mc) ==
    [s EXCEPT !.error = (mc.task = TASK.EMULATOR),
              !.pending = s.pending - Bit(s.pending, mc.task) * (2^mc.task)]

f1_block_unchecked(s, mc) ==
    [s EXCEPT !.pending = s.pending - Bit(s.pending, mc.task) * (2^mc.task)]

\* F1=BLOCK of do_f1()
f1_block(s, mc) ==
    IF mc.task = TASK.EMULATOR
    THEN [s EXCEPT !.error = TRUE]
    ELSE [s EXCEPT !.pending =
            s.pending - Bit(s.pending, mc.task) * (2^mc.task)]

do_f1(s, mc, bus, alu, shifter_output) ==
    IF mc.f1 \in {F1.CONST, F1.LLSH1, F1.LRSH1, F1.LLCY8} THEN s
    ELSE IF mc.f1 = F1.LOAD_MAR THEN f1_load_mar(s, mc, alu)
    ELSE IF mc.f1 = F1.TASK THEN f1_task(s, mc)
    ELSE IF mc.f1 = F1.BLOCK THEN f1_block(s, mc)
    ELSE do_f1_specific(s, mc, bus)

\* do_f2(): the state it leaves and the bits it adds to NEXT.
do_f2(s, mc, bus, alu, shifter_output) ==
    LET same(n) == [sim |-> s, next_extra |-> n]
    IN  IF mc.f2 = F2.NONE \/ mc.f2 = F2.CONST THEN same(0)
        ELSE IF mc.f2 = F2.BUSEQ0 THEN same(IF bus = 0 THEN 1 ELSE 0)
        ELSE IF mc.f2 = F2.SHLT0 THEN same(Bit(shifter_output, 15))
        ELSE IF mc.f2 = F2.SHEQ0
            THEN same(IF shifter_output = 0 THEN 1 ELSE 0)
        ELSE IF mc.f2 = F2.BUS THEN same(BitAnd(bus, MPC_ADDR_MASK))
        ELSE IF mc.f2 = F2.ALUCY THEN same(IF s.aluC0 THEN 1 ELSE 0)
        ELSE IF mc.f2 = F2.STORE_MD
            THEN IF mc.f1 # F1.LOAD_MAR \/ s.sys_type = SYS.ALTO_I
                 THEN LET addr == IF s.mem_which # 0
                                  THEN pair_address(s, s.mar) ELSE s.mar
                          s1 == simulator_write(s, addr, bus, s.mem_task,
                                                s.mem_extended)
                      IN  [sim |-> [s1 EXCEPT
                                       !.mem_which = 1 - s.mem_which],
                           next_extra |-> 0]
                 ELSE same(0)
        ELSE IF mc.task = TASK.EMULATOR
            THEN IF mc.f2 = F2.EMU_BUSODD THEN same(bus % 2)
                 ELSE IF mc.f2 = F2.EMU_LOAD_IR
                 THEN [sim |-> [s EXCEPT !.ir = bus, !.skip = FALSE],
                       next_extra |-> (Shr(bus, 8) % 8) + 8 * Bit(bus, 15)]
                 ELSE same(0)
        ELSE same(0)

\* M follows L in every task.
wb_m_any_task(s, mc, alu) == alu

\* wb_registers(): the value of M after L was loaded.
wb_m(s, mc, alu) == IF mc.task = TASK.EMULATOR THEN alu ELSE s.m

\* T is always loaded from the bus.
wb_t_from_bus(mc, bus, alu) == bus

\* wb_registers(): the value T is loaded with.
wb_t(mc, bus, alu) == IF mc.load_t_from_alu THEN alu ELSE bus

wb_registers(s, mc, modified_rsel, bus, alu, shifter_output, alu_carry) ==
    LET s1 == IF mc.use_constant THEN s
              ELSE IF mc.bs = BS.LOAD_R
              THEN [s EXCEPT !.r[modified_rsel] = shifter_output]
              ELSE IF mc.ram_task /\ mc.bs = BS.RAM_LOAD_S_LOCATION
              THEN [s EXCEPT !.s =
                      ArrPut(s.s, s.sr_banks[mc.task] * NUM_R_REGISTERS
                                  + mc.rsel, s.m)]
              ELSE s
        s2 == IF mc.load_l
              THEN [s1 EXCEPT !.l = alu,
                              !.m = wb_m(s1, mc, alu),
                              !.aluC0 = alu_carry]
              ELSE s1
    IN  IF mc.load_t
        THEN [s2 EXCEPT !.t = wb_t(mc, bus, alu)]
        ELSE s2

\* The counter goes idle one step late.
next_mem_cycle_late(mem_cycle) ==
    IF mem_cycle # 65535
    THEN IF mem_cycle > 10 THEN 65535 ELSE mem_cycle + 1
    ELSE mem_cycle

\* if (sim->mem_cycle != 0xFFFF): 0xFFFF after 10, one more otherwise
next_mem_cycle(mem_cycle) ==
    IF mem_cycle # 65535
    THEN IF mem_cycle >= 10 THEN 65535 ELSE mem_cycle + 1
    ELSE mem_cycle

\* The address after mpc, whatever the word at mpc says.
next_mpc_sequential(mpc, mcode, next_extra) == (mpc + 1) % 4096

\* (mpc & MPC_BANK_MASK) | MICROCODE_NEXT(mcode) | next_extra
next_mpc(mpc, mcode, next_extra) ==
    BitOr(BitOr(BitAnd(mpc, MPC_BANK_MASK), MICROCODE_NEXT(mcode)),
          next_extra)

\* update_program_counters(); `mcode` is microcode[task_mpc[ctask]].
\* The highest pending task preempts the current one at every step.
next_ctask_preempting(s) == highest_pending(s)

\* update_program_counters(): the task of the next step.
next_ctask(s) == s.ntask

update_program_counters(s, next_extra, mcode) ==
    LET ctask == s.ctask
        mpc == s.task_mpc[ctask]
    IN  [s EXCEPT
            !.task_mpc[ctask] = next_mpc(mpc, mcode, next_extra),
            !.mir = mcode,
            !.mpc = mpc,
            !.ctask = next_ctask(s),
            !.cycle = s.cycle + 1,
            !.mem_cycle = next_mem_cycle(s.mem_cycle)]

step_halted_never(s) == FALSE

\* The test simulator_step() starts with.
step_halted(s) == s.error

\* simulator_step() up to and including wb_registers(): every value the
\* step computes, the stage at which it returned, and the state there.
step_core(s) ==
    LET mc == microcode_predecode(s.sys_type, s.mpc, s.mir, s.ctask)
        modified_rsel == get_modified_rsel(s, mc)
        rb == read_bus(s, mc, modified_rsel)
        al == compute_alu(rb.sim, mc, rb.bus)
        sh == do_shift(rb.sim, mc, rb.sim.carry)
        s1 == do_f1(rb.sim, mc, rb.bus, al.alu, sh.res)
        f2 == do_f2(s1, mc, rb.bus, al.alu, sh.res)
        s3 == wb_registers(f2.sim, mc, modified_rsel, rb.bus, al.alu,
                           sh.res, al.carry)
        at(stage, out, ne) ==
            [stage |-> stage, sim |-> out, next_extra |-> ne, mc |-> mc,
             modified_rsel |-> modified_rsel, bus |-> rb.bus,
             alu |-> al.alu, alu_carry |-> al.carry,
             shifter_output |-> sh.res]
    IN  IF step_halted(s) THEN at("halted", s, 0)
        ELSE IF rb.sim.error THEN at("read_bus", rb.sim, 0)
        ELSE IF al.error
            THEN at("compute_alu", [rb.sim EXCEPT !.error = TRUE], 0)
        ELSE IF s1.error THEN at("do_f1", s1, 0)
        ELSE at("done", s3, f2.next_extra)

\* simulator_step(), with the word it fetches.
simulator_step(s, mcode) ==
    LET c == step_core(s)
    IN  IF c.stage = "done"
        THEN update_program_counters(c.sim, c.next_extra, mcode)
        ELSE c.sim

(***************************************************************************)
(* The environment of the simulator: the ROM images, the words the         *)
(* microcode store may hold, the peripherals that wake tasks, and the      *)
(* callers of simulator_write.                                             *)
(***************************************************************************)
MaxSteps == 3
MaxMemSteps == 12
MaxCycSteps == 14
MaxWrites == 2
MaxResets == 1

\* The constant ROM image: a few addresses of main memory, the addresses
\* around the bank registers, and all ones elsewhere.
ConstRom ==
    [i \in 0..255 |->
        CASE i = 0 -> 0
          [] i = 1 -> 1
          [] i = 2 -> 64
          [] i = 5 -> 65
          [] i = 8 -> 65504
          [] i = 13 -> 65520
          [] i = 16 -> 65521
          [] i = 21 -> 43690
          [] OTHER -> 65535]

\* The words the microcode store may hold, per environment, but for their
\* NEXT field.
InstrSet(e) ==
    IF e = "task"
    THEN {Mir(0, ALU.BUS, BS.NONE, F1.TASK, F2.NONE, FALSE, FALSE, 0),
          Mir(0, ALU.BUS, BS.NONE, F1.BLOCK, F2.NONE, FALSE, FALSE, 0),
          Mir(0, ALU.BUS, BS.READ_MD, F1.BLOCK, F2.NONE, FALSE, FALSE, 0),
          Mir(0, ALU.BUS, BS.READ_MD, F1.BLOCK, F2.CONST, TRUE, TRUE, 0),
          Mir(0, 15, BS.NONE, F1.BLOCK, F2.NONE, FALSE, TRUE, 0),
          Mir(0, ALU.BUS, BS.READ_MD, F1.NONE, F2.NONE, FALSE, FALSE, 0),
          Mir(0, 14, BS.READ_MD, F1.TASK, F2.NONE, FALSE, FALSE, 0),
          Mir(0, ALU.BUS, 3, F1.EMU_LOAD_RMR, F2.NONE, FALSE, TRUE, 0)}
    ELSE IF e = "mem"
    THEN {Mir(0, ALU.BUS, 2, F1.LOAD_MAR, F2.CONST, FALSE, FALSE, 0),
          Mir(0, ALU.BUS, 5, F1.LOAD_MAR, F2.CONST, FALSE, FALSE, 0),
          Mir(1, ALU.BUS, 0, F1.LOAD_MAR, F2.CONST, FALSE, FALSE, 0),
          Mir(1, ALU.BUS, 5, F1.LOAD_MAR, F2.CONST, FALSE, FALSE, 0),
          Mir(0, ALU.BUS, BS.READ_R, F1.LOAD_MAR, F2.STORE_MD,
              FALSE, FALSE, 0),
          Mir(2, ALU.BUS, 5, F1.CONST, F2.STORE_MD, FALSE, FALSE, 0),
          Mir(0, ALU.BUS, BS.READ_MD, F1.NONE, F2.NONE, TRUE, FALSE, 0)}
    ELSE IF e = "dbg"
    THEN {MirZero,
          Mir(0, ALU.BUS, BS.NONE, F1.TASK, F2.NONE, FALSE, FALSE, 0)}
    ELSE IF e = "halt"
    THEN {MirZero,
          Mir(0, 15, BS.NONE, F1.NONE, F2.NONE, FALSE, FALSE, 0)}
    ELSE IF e = "cyc"
    THEN {MirZero,
          Mir(0, ALU.BUS, 2, F1.LOAD_MAR, F2.CONST, FALSE, FALSE, 0),
          Mir(0, 15, BS.NONE, F1.NONE, F2.NONE, FALSE, FALSE, 0)}
    ELSE IF e = "idx"
    THEN {Mir(31, ALU.BUS, BS.NONE, F1.EMU_LOAD_ESRB, F2.NONE,
              FALSE, TRUE, 0),
          Mir(31, ALU.BUS, BS.RAM_LOAD_S_LOCATION, F1.NONE, F2.NONE,
              FALSE, FALSE, 0),
          Mir(0, ALU.BUS, BS.NONE, F1.RAM_LOAD_SRB, F2.BUS,
              FALSE, FALSE, 0),
          Mir(31, ALU.BUS, BS.NONE, F1.NONE, F2.EMU_LOAD_IR,
              FALSE, FALSE, 0),
          Mir(31, ALU.BUS, BS.LOAD_R, F1.NONE, F2.EMU_LOAD_IR,
              FALSE, FALSE, 0),
          Mir(31, ALU.BUS, BS.LOAD_R, F1.NONE, F2.EMU_ACSOURCE,
              FALSE, FALSE, 0),
          Mir(0, ALU.BUS, BS.NONE, F1.TASK, F2.NONE, FALSE, FALSE, 0)}
    ELSE IF e = "wb"
    THEN {Mir(2, ALU.BUS, BS.READ_MD, F1.NONE, F2.CONST, TRUE, TRUE, 0),
          Mir(0, ALU.BUS, BS.LOAD_R, F1.CONST, F2.NONE, FALSE, TRUE, 0),
          Mir(3, ALU.BUS_PLUS_1, BS.LOAD_R, F1.LLSH1, F2.NONE,
              TRUE, TRUE, 0),
          Mir(4, ALU.BUS, BS.RAM_LOAD_S_LOCATION, F1.NONE, F2.NONE,
              FALSE, FALSE, 0),
          Mir(4, ALU.BUS, BS.RAM_LOAD_S_LOCATION, F1.CONST, F2.NONE,
              FALSE, FALSE, 0),
          Mir(2, ALU.BUS_AND_T, BS.READ_MD, F1.CONST, F2.NONE,
              TRUE, TRUE, 0),
          Mir(4, ALU.BUS_PLUS_1, BS.READ_MD, F1.CONST, F2.NONE,
              FALSE, TRUE, 0),
          Mir(3, ALU.BUS, BS.LOAD_R, F1.BLOCK, F2.NONE, TRUE, TRUE, 0),
          Mir(2, ALU.BUS, BS.READ_MD, F1.TASK, F2.CONST, TRUE, TRUE, 0)}
    ELSE IF e = "nova"
    THEN {MirZero,
          Mir(0, ALU.BUS, BS.LOAD_R, F1.NONE, F2.CONST, FALSE, TRUE, 0),
          Mir(2, ALU.BUS, BS.READ_MD, F1.NONE, F2.CONST, TRUE, TRUE, 0),
          Mir(3, ALU.BUS, BS.LOAD_R, F1.LLSH1, F2.NONE, FALSE, FALSE, 0),
          Mir(3, ALU.BUS, BS.LOAD_R, F1.LRSH1, F2.NONE, FALSE, FALSE, 0),
          Mir(3, ALU.BUS, BS.LOAD_R, F1.LRSH1, F2.EMU_MAGIC,
              FALSE, FALSE, 0)}
    ELSE {MirZero}

\* The ROM images considered hold straight-line code: the word at `addr`
\* continues at addr + 1.  The word 0 at address 0, which continues at
\* address 0, is considered as well.
RomWords(e, addr) ==
    (IF e = "cyc" /\ addr = 0 THEN {MirZero} ELSE {}) \cup
    {[w EXCEPT !.next = (addr + 1) % (MPC_ADDR_MASK + 1)] :
        w \in IF e = "mem" /\ addr \notin {0, 1}
              THEN {Mir(0, ALU.BUS, BS.READ_MD, F1.NONE, F2.NONE,
                        TRUE, FALSE, 0)}
              ELSE IF e \in {"dbg", "halt"} /\ addr # 0 THEN {MirZero}
              ELSE IF e = "cyc" /\ addr > 2 THEN {MirZero}
              ELSE InstrSet(e)}

\* The number of calls of simulator_step() considered, per environment.
StepBound(e) ==
    IF e = "mem" THEN MaxMemSteps
    ELSE IF e = "cyc" THEN MaxCycSteps
    ELSE MaxSteps

\* The addresses and words callers of simulator_write() pass.
PokeAddresses == {64, 65, XM_BANK_START}
PokeWords == {43690, 21845}

\* The step read the bus from the memory data register.
md_read(core) ==
    /\ core.stage # "halted"
    /\ core.mc.bs = BS.READ_MD
    /\ ~core.mc.use_constant

\* The step executed F1=LOAD_MAR.
mar_loaded(core) == core.stage = "done" /\ core.mc.f1 = F1.LOAD_MAR

\* The step stored the bus to memory with F2=STORE_MD.
md_stored(s, core) ==
    /\ core.stage = "done"
    /\ core.mc.f2 = F2.STORE_MD
    /\ (core.mc.f1 # F1.LOAD_MAR \/ s.sys_type = SYS.ALTO_I)

\* The number of reads of the memory data register since the last
\* F1=LOAD_MAR, or -1 when there was none or F2=STORE_MD came after it.
md_reads(n, s, core) ==
    IF md_stored(s, core) THEN -1
    ELSE IF mar_loaded(core) THEN 0
    ELSE IF n >= 0 /\ md_read(core) THEN n + 1
    ELSE n

\* The system types and the words after xm_banks considered, per
\* environment.
SysTypes(e) ==
    IF e = "task" THEN {SYS.ALTO_II_3KRAM}
    ELSE {SYS.ALTO_I, SYS.ALTO_II_3KRAM}

OobWords(e) == IF e \in {"task", "idx"} THEN {0} ELSE {0, 43690}

\* The tasks whose peripherals raise their pending bit.
WakeTasks == {TASK.DISK_SECTOR, TASK.ETHERNET}

\* The state before simulator_reset() has run on a created simulator.
Created(sys_type, oob) ==
    [sys_type |-> sys_type, consts |-> ConstRom,
     mous_bits |-> 65535, ether_address |-> 43605,
     r |-> <<>>, s |-> <<>>, mem |-> <<>>,
     xm_banks |-> [i \in 0..NUM_BANK_SLOTS |-> oob],
     sr_banks |-> <<>>, task_mpc |-> <<>>, error |-> FALSE,
     t |-> 0, l |-> 0, m |-> 0, mar |-> 0, ir |-> 0, mir |-> MirZero,
     mpc |-> 0, ctask |-> 0, ntask |-> 0, pending |-> 0,
     aluC0 |-> FALSE, skip |-> FALSE, carry |-> FALSE, dns |-> FALSE,
     rmr |-> 0, mem_cycle |-> 0, mem_task |-> 0, mem_low |-> 0,
     mem_high |-> 0, mem_extended |-> FALSE, mem_which |-> 0,
     cycle |-> 0, next_cycle |-> 0]

NoFx == [stage |-> "none"]

NoUdp == [mutex |-> "none"]

NoPs == [stage |-> "none"]

InitCpu(e) ==
    /\ \E sys_type \in SysTypes(e), oob \in OobWords(e) :
          sim = simulator_reset(Created(sys_type, oob))
    /\ microcode = EmptyArr
    /\ hist = [op |-> "reset", pre |-> sim, steps |-> 0, writes |-> 0,
               resets |-> 0, reads |-> -1, reads_pre |-> -1]
    /\ env = e
    /\ fx = NoFx
    /\ udp = NoUdp
    /\ ps = NoPs

\* One call of simulator_step(); the word at task_mpc[ctask] is fixed by the
\* ROM image the first time it is fetched.
StepCpu ==
    /\ hist.steps < StepBound(env)
    /\ LET addr == sim.task_mpc[sim.ctask]
       IN  IF step_core(sim).stage = "done" /\ addr \notin DOMAIN microcode
           THEN \E w \in RomWords(env, addr) :
                  /\ microcode' = [a \in DOMAIN microcode \cup {addr} |->
                                     IF a = addr THEN w ELSE microcode[a]]
                  /\ sim' = simulator_step(sim, w)
           ELSE /\ microcode' = microcode
                /\ sim' = simulator_step(sim, ArrGet(microcode, addr))
    /\ hist' = [hist EXCEPT !.op = "step", !.pre = sim,
                            !.steps = hist.steps + 1,
                            !.reads = md_reads(hist.reads, sim,
                                               step_core(sim)),
                            !.reads_pre = hist.reads]

\* simulator_step() called on its own
Step ==
    /\ StepCpu
    /\ UNCHANGED <<env, fx, udp, ps>>

\* simulator_reset()
Reset ==
    /\ hist.resets < MaxResets
    /\ sim' = simulator_reset(sim)
    /\ hist' = [hist EXCEPT !.op = "reset", !.pre = sim,
                            !.resets = hist.resets + 1,
                            !.reads = -1, !.reads_pre = hist.reads]
    /\ UNCHANGED <<microcode, env, fx, udp, ps>>

\* A peripheral raises the pending bit of its task.
Wakeup ==
    /\ \E task \in WakeTasks :
          /\ Bit(sim.pending, task) = 0
          /\ sim' = [sim EXCEPT !.pending = sim.pending + 2^task]
    /\ hist' = [hist EXCEPT !.op = "wakeup", !.pre = sim,
                            !.reads_pre = hist.reads]
    /\ UNCHANGED <<microcode, env, fx, udp, ps>>

\* A caller of simulator_write() fills memory before the CPU runs.
SimWrite ==
    /\ hist.steps = 0
    /\ hist.writes < MaxWrites
    /\ \E address \in PokeAddresses, data \in PokeWords :
          sim' = simulator_write(sim, address, data, TASK.EMULATOR, FALSE)
    /\ hist' = [hist EXCEPT !.op = "write", !.pre = sim,
                            !.writes = hist.writes + 1,
                            !.reads_pre = hist.reads]
    /\ UNCHANGED <<microcode, env, fx, udp, ps>>

Init == InitCpu("task")

Next == Step \/ Reset \/ Wakeup

Spec == Init /\ [][Next]_vars

\* Microcode that reaches the ends of the register files and of the
\* microcode store: bank selection, register selection modified by IR,
\* and NEXT modified by the bus.
InitIdx == InitCpu("idx")

NextIdx == Step \/ Wakeup

SpecIdx == InitIdx /\ [][NextIdx]_vars

\* The memory cycle counter over long runs: microcode that loads MAR in
\* some of its first three words and then idles.  ps.since is the number
\* of steps completed after the most recent step that executed
\* F1=LOAD_MAR, or -1 when none was executed since simulator_reset().
InitCyc ==
    /\ sim = simulator_reset(Created(SYS.ALTO_II_3KRAM, 0))
    /\ microcode = EmptyArr
    /\ hist = [op |-> "reset", pre |-> sim, steps |-> 0, writes |-> 0,
               resets |-> 0, reads |-> -1, reads_pre |-> -1]
    /\ env = "cyc"
    /\ fx = NoFx
    /\ udp = NoUdp
    /\ ps = [stage |-> "cyc", since |-> -1]

StepCyc ==
    /\ ps.stage = "cyc"
    /\ StepCpu
    /\ ps' = [ps EXCEPT !.since =
                 IF mar_loaded(step_core(sim)) THEN 0
                 ELSE IF ps.since >= 0 /\ step_core(sim).stage = "done"
                 THEN ps.since + 1
                 ELSE ps.since]
    /\ UNCHANGED <<env, fx, udp>>

ResetCyc ==
    /\ ps.stage = "cyc"
    /\ hist.resets < MaxResets
    /\ sim' = simulator_reset(sim)
    /\ hist' = [hist EXCEPT !.op = "reset", !.pre = sim,
                            !.resets = hist.resets + 1,
                            !.reads = -1, !.reads_pre = hist.reads]
    /\ ps' = [ps EXCEPT !.since = -1]
    /\ UNCHANGED <<microcode, env, fx, udp>>

NextCyc == StepCyc \/ ResetCyc

SpecCyc == InitCyc /\ [][NextCyc]_vars

\* The memory pipeline: memory filled by simulator_write(), then microcode
\* that loads MAR and reads or stores the memory data, on both system types.
InitMem == InitCpu("mem")

NextMem == Step \/ SimWrite

SpecMem == InitMem /\ [][NextMem]_vars

(***************************************************************************)
(* compute_alu() and do_shift() applied to operands of every shape: the    *)
(* operands are chosen in the initial state, and one action applies the    *)
(* functions the way simulator_step() calls them.                          *)
(***************************************************************************)
FxWords == {0, 1, 2, 255, 32767, 32768, 32769, 43690, 21845, 65534, 65535}

ArithmeticAluf ==
    {ALU.BUS_PLUS_1, ALU.BUS_MINUS_1, ALU.BUS_PLUS_T, ALU.BUS_MINUS_T,
     ALU.BUS_MINUS_T_MINUS_1, ALU.BUS_PLUS_T_PLUS_1, ALU.BUS_PLUS_SKIP}

\* The predecoded emulator microinstruction with the given ALUF, F1 and F2.
FxMc(aluf, f1, f2) ==
    microcode_predecode(sim.sys_type, 0,
                        Mir(0, aluf, BS.NONE, f1, f2, FALSE, FALSE, 0),
                        TASK.EMULATOR)

\* compute_alu() on the bus value `bus` with T = tv.
FxAlu(aluf, bus, tv) ==
    compute_alu([sim EXCEPT !.t = tv, !.skip = fx.skip],
                FxMc(aluf, F1.NONE, F2.NONE), bus)

\* do_shift() with L = lv; nova_carry is the copy of sim->carry that
\* simulator_step() passes.
FxShift(f1, lv) ==
    do_shift([sim EXCEPT !.l = lv, !.t = fx.t, !.dns = fx.dns,
                         !.carry = fx.carry],
             FxMc(ALU.BUS, f1, IF fx.magic THEN F2.EMU_MAGIC ELSE F2.NONE),
             fx.carry)

InitFx ==
    /\ sim = simulator_reset(Created(SYS.ALTO_II_3KRAM, 0))
    /\ microcode = EmptyArr
    /\ hist = [op |-> "reset", pre |-> sim, steps |-> 0, writes |-> 0,
               resets |-> 0, reads |-> -1, reads_pre |-> -1]
    /\ env = "fx"
    /\ fx \in [stage : {"in"}, bus : FxWords, t : FxWords, skip : BOOLEAN,
               carry : BOOLEAN, dns : BOOLEAN, magic : BOOLEAN,
               out : {<<>>}]
    /\ udp = NoUdp
    /\ ps = NoPs

\* The ALU applied to the operands, and again to its own results.
AluLaws ==
    /\ fx.stage = "in"
    /\ LET plus == FxAlu(ALU.BUS_PLUS_T, fx.bus, fx.t)
           and_t == FxAlu(ALU.BUS_AND_T, fx.bus, fx.t)
           and_not_t == FxAlu(ALU.BUS_AND_NOT_T, fx.bus, fx.t)
           xor == FxAlu(ALU.BUS_XOR_T, fx.bus, fx.t)
       IN  fx' = [fx EXCEPT
                    !.stage = "alu",
                    !.out = [plus |-> plus,
                             minus_back |->
                                FxAlu(ALU.BUS_MINUS_T, plus.alu, fx.t),
                             or_back |->
                                FxAlu(ALU.BUS_OR_T, and_t.alu, and_not_t.alu),
                             xor_back |->
                                FxAlu(ALU.BUS_XOR_T, xor.alu, fx.t),
                             carry |-> [f \in ArithmeticAluf |->
                                          FxAlu(f, fx.bus, fx.t).carry]]]
    /\ UNCHANGED <<sim, microcode, hist, env, udp, ps>>

\* The shifter applied to L = bus, and again to its own result.
ShiftLaws ==
    /\ fx.stage = "in"
    /\ LET right == FxShift(F1.LRSH1, fx.bus)
           cycled == FxShift(F1.LLCY8, fx.bus)
       IN  fx' = [fx EXCEPT
                    !.stage = "shift",
                    !.out = [right |-> right,
                             left_back |-> FxShift(F1.LLSH1, right.res),
                             cycled |-> cycled,
                             cycled_back |-> FxShift(F1.LLCY8, cycled.res)]]
    /\ UNCHANGED <<sim, microcode, hist, env, udp, ps>>

NextFx == AluLaws \/ ShiftLaws

SpecFx == InitFx /\ [][NextFx]_vars

(***************************************************************************)
(* The UDP transport (gui/udp_transport.c).  A buffer is the function of   *)
(* the bytes written to it, by index; every other byte holds what malloc   *)
(* left there (heap).                                                      *)
(***************************************************************************)
UDP_PACKET_SIZE == 1024
UDP_RING_BUFFER_SIZE == 8192

BufGet(buf, i, heap) == IF i \in DOMAIN buf THEN buf[i] ELSE heap

\* buf[pos] = b0; buf[pos + 1] = b1
BufPut2(buf, pos, b0, b1) ==
    [i \in DOMAIN buf \cup {pos, pos + 1} |->
        IF i = pos THEN b0 ELSE IF i = pos + 1 THEN b1 ELSE buf[i]]

\* memcpy(&dst[dpos], &src[spos], n)
memcpy(dst, dpos, src, spos, n, heap) ==
    [i \in DOMAIN dst \cup (dpos..(dpos + n - 1)) |->
        IF i >= dpos /\ i < dpos + n
        THEN BufGet(src, spos + (i - dpos), heap)
        ELSE dst[i]]

\* The transport udp_transport_create() returns, its thread started.
udp_transport_create(heap) ==
    [tx_buf |-> <<>>, rx_buf |-> <<>>, ring_buf |-> <<>>, pkt_buf |-> <<>>,
     ring_start |-> 0, ring_end |-> 0, tx_pos |-> 0, rx_pos |-> 0,
     rx_len |-> 0, rx_enable |-> TRUE, running |-> TRUE, heap |-> heap]

trp_clear_tx(utrp) == [utrp EXCEPT !.tx_pos = 0]

\* The reservation of the size prefix trp_append_tx() starts with.
tx_reserve(utrp) ==
    IF utrp.tx_pos = 0
    THEN [utrp EXCEPT !.tx_pos = 2, !.tx_buf = BufPut2(@, 0, 0, 0)]
    ELSE utrp

tx_put_word_swapped(utrp, data) ==
    [utrp EXCEPT !.tx_buf = BufPut2(@, utrp.tx_pos, data % 256,
                                    Shr(data, 8) % 256),
                 !.tx_pos = utrp.tx_pos + 2]

\* trp_append_tx(): the two bytes stored for a word
tx_put_word(utrp, data) ==
    [utrp EXCEPT !.tx_buf = BufPut2(@, utrp.tx_pos, Shr(data, 8) % 256,
                                    data % 256),
                 !.tx_pos = utrp.tx_pos + 2]

\* trp_append_tx(): the transport it leaves and the value it returns.
trp_append_tx(utrp, data) ==
    LET u == tx_reserve(utrp)
    IN  IF u.tx_pos >= UDP_PACKET_SIZE
        THEN [utrp |-> u, ret |-> FALSE]
        ELSE [utrp |-> tx_put_word(u, data), ret |-> TRUE]

\* trp_send(): the transport it leaves and the datagram sendto() is given,
\* the first tx_pos bytes of tx_buf.
trp_send(utrp) ==
    LET data == (Shr(utrp.tx_pos, 1) - 1) % W16
        tx_buf == BufPut2(utrp.tx_buf, 0, Shr(data, 8) % 256, data % 256)
    IN  [utrp |-> [utrp EXCEPT !.tx_buf = tx_buf, !.tx_pos = 0],
         dgram |-> [len |-> utrp.tx_pos,
                    bytes |-> [i \in 0..(utrp.tx_pos - 1) |->
                                 BufGet(tx_buf, i, utrp.heap)]]]

trp_clear_rx(utrp) == [utrp EXCEPT !.rx_pos = 0, !.rx_len = 0]

\* trp_get_rx_data() without the skip of the size prefix
trp_get_rx_data_from_prefix(utrp) ==
    IF utrp.rx_pos >= utrp.rx_len THEN [utrp |-> utrp, data |-> 0]
    ELSE [utrp |-> [utrp EXCEPT !.rx_pos = utrp.rx_pos + 2],
          data |-> ((BufGet(utrp.rx_buf, utrp.rx_pos, utrp.heap) * 256) % W16)
                   + BufGet(utrp.rx_buf, utrp.rx_pos + 1, utrp.heap)]

\* trp_get_rx_data(): the transport it leaves and the word it returns.
trp_get_rx_data(utrp) ==
    IF utrp.rx_pos >= utrp.rx_len THEN [utrp |-> utrp, data |-> 0]
    ELSE LET pos == IF utrp.rx_pos = 0 THEN 2 ELSE utrp.rx_pos
         IN  [utrp |-> [utrp EXCEPT !.rx_pos = pos + 2],
              data |-> ((BufGet(utrp.rx_buf, pos, utrp.heap) * 256) % W16)
                       + BufGet(utrp.rx_buf, pos + 1, utrp.heap)]

trp_has_rx_data(utrp) ==
    IF utrp.rx_pos >= utrp.rx_len THEN 0 ELSE utrp.rx_len - utrp.rx_pos

\* The 16-bit number the two bytes at pos of buf hold.
be16(buf, pos, heap) ==
    BufGet(buf, pos, heap) * 256 + BufGet(buf, pos + 1, heap)

\* free_size as receive_thread() computes it
free_size(utrp) == UDP_RING_BUFFER_SIZE - (utrp.ring_end - utrp.ring_start)

(***************************************************************************)
(* The two threads of a transport.  udp.mutex is the owner of the mutex;   *)
(* udp.rt is the receive thread: its position in receive_thread() and its  *)
(* local variables; udp.cpu is the CPU thread inside trp_enable_rx() or    *)
(* trp_receive(); udp.acc is the last access to the state both threads     *)
(* use, and whether the thread held the mutex then.                        *)
(***************************************************************************)
MaxDatagrams == 2
MaxSmallLen == 3

lock_not_taken(mutex, thread) == mutex

\* SDL_LockMutex() returns once the mutex is free and makes the caller
\* its owner.
CanLock(mutex) == mutex = "free"
SDL_LockMutex(mutex, thread) == thread
SDL_UnlockMutex(mutex, thread) == "free"

Acc(thread) == [thread |-> thread, held |-> udp.mutex = thread]

\* The receive thread at pc, its local variables not yet assigned.
RtAt(pc) ==
    [pc |-> pc, running |-> TRUE, free_size |-> 0, len |-> 0, pos |-> 0,
     ring_pos |-> 0, why |-> "none"]

RtReturned(why) == [RtAt("returned") EXCEPT !.why = why]

\* receive_thread(): SDL_LockMutex at the loop head and before the store
ThreadLock ==
    /\ udp.mutex # "none" /\ udp.rt.pc \in {"lock1", "lock2"}
    /\ CanLock(udp.mutex)
    /\ udp' = [udp EXCEPT
                 !.mutex = SDL_LockMutex(udp.mutex, "rx"),
                 !.rt.pc = IF udp.rt.pc = "lock1" THEN "read" ELSE "check"]
    /\ UNCHANGED cpuVars

\* receive_thread(): running and free_size are read
ThreadRead ==
    /\ udp.mutex # "none" /\ udp.rt.pc = "read"
    /\ udp' = [udp EXCEPT !.rt.running = udp.utrp.running,
                          !.rt.free_size = free_size(udp.utrp),
                          !.rt.pc = "unlock1",
                          !.acc = Acc("rx")]
    /\ UNCHANGED cpuVars

\* The thread goes on to recvfrom() whatever space is left.
ring_has_room_always(free) == TRUE

\* receive_thread(): the ring can take a packet of the largest size
ring_has_room(free) == ~(free < UDP_PACKET_SIZE)

\* receive_thread(): the first unlock, then break, or delay and continue,
\* or go on to recvfrom()
ThreadUnlock1 ==
    /\ udp.mutex # "none" /\ udp.rt.pc = "unlock1"
    /\ udp' = [udp EXCEPT
                 !.mutex = SDL_UnlockMutex(udp.mutex, "rx"),
                 !.rt = IF ~udp.rt.running THEN RtReturned("stopped")
                        ELSE IF ~ring_has_room(udp.rt.free_size)
                        THEN RtAt("lock1")
                        ELSE RtAt("recv")]
    /\ UNCHANGED cpuVars

\* recvfrom() of the datagram d into pkt_buf, and the checks of its length:
\* where the thread goes next, and the length to store.
recv_parse(utrp, d) ==
    LET s == IF d.len < UDP_PACKET_SIZE - 2 THEN d.len
             ELSE UDP_PACKET_SIZE - 2
        u == [utrp EXCEPT
                !.pkt_buf = memcpy(@, 0, d.bytes, 0, s, utrp.heap)]
        packet_len == be16(u.pkt_buf, 0, u.heap) * 2 + 2
    IN  IF s <= 0 THEN [utrp |-> u, rt |-> RtAt("lock1")]
        ELSE IF packet_len > s \/ packet_len % 2 # 0
        THEN [utrp |-> u, rt |-> RtReturned("invalid packet length")]
        ELSE [utrp |-> u,
              rt |-> [RtAt("lock2") EXCEPT
                        !.len = (IF packet_len < s THEN packet_len ELSE s)
                                + 2]]

\* receive_thread(): recvfrom(); with no datagram it times out (EAGAIN),
\* and on a closed descriptor it fails with another error
ThreadRecv ==
    /\ udp.mutex # "none" /\ udp.rt.pc = "recv"
    /\ IF udp.res.sockfd = "closed"
       THEN udp' = [udp EXCEPT
                      !.rt = RtReturned("could not receive packet")]
       ELSE IF udp.sock = <<>>
       THEN udp' = [udp EXCEPT !.rt = RtAt("lock1")]
       ELSE LET r == recv_parse(udp.utrp, Head(udp.sock))
            IN  udp' = [udp EXCEPT !.sock = Tail(udp.sock),
                                   !.utrp = r.utrp, !.rt = r.rt]
    /\ UNCHANGED cpuVars

\* receive_thread(): rx_enable and the free space are checked
ThreadCheck ==
    /\ udp.mutex # "none" /\ udp.rt.pc = "check"
    /\ IF ~udp.utrp.rx_enable
       THEN udp' = [udp EXCEPT
                      !.mutex = SDL_UnlockMutex(udp.mutex, "rx"),
                      !.rt = RtAt("lock1"), !.acc = Acc("rx")]
       ELSE IF free_size(udp.utrp) < udp.rt.len
       THEN udp' = [udp EXCEPT
                      !.mutex = SDL_UnlockMutex(udp.mutex, "rx"),
                      !.rt = RtReturned("not enough space"),
                      !.acc = Acc("rx")]
       ELSE udp' = [udp EXCEPT !.rt.pc = "store1", !.acc = Acc("rx")]
    /\ UNCHANGED cpuVars

\* receive_thread(): the part of the packet that fits before the end of
\* the ring is copied
ThreadStore1 ==
    /\ udp.mutex # "none" /\ udp.rt.pc = "store1"
    /\ LET u == udp.utrp
           ring_pos == IF u.ring_end >= UDP_RING_BUFFER_SIZE
                       THEN u.ring_end - UDP_RING_BUFFER_SIZE
                       ELSE u.ring_end
           pos == UDP_RING_BUFFER_SIZE - ring_pos
       IN  IF ring_pos + udp.rt.len >= UDP_RING_BUFFER_SIZE
           THEN udp' = [udp EXCEPT
                          !.utrp.ring_buf = memcpy(@, ring_pos, u.pkt_buf, 0,
                                                   pos, u.heap),
                          !.utrp.ring_end = u.ring_end + pos,
                          !.rt.pos = pos, !.rt.ring_pos = 0,
                          !.rt.pc = "store2", !.acc = Acc("rx")]
           ELSE udp' = [udp EXCEPT
                          !.rt.pos = 0, !.rt.ring_pos = ring_pos,
                          !.rt.pc = "store2", !.acc = Acc("rx")]
    /\ UNCHANGED cpuVars

\* receive_thread(): the rest of the packet is copied
ThreadStore2 ==
    /\ udp.mutex # "none" /\ udp.rt.pc = "store2"
    /\ LET u == udp.utrp
           rt == udp.rt
       IN  IF rt.pos < rt.len
           THEN udp' = [udp EXCEPT
                          !.utrp.ring_buf = memcpy(@, rt.ring_pos, u.pkt_buf,
                                                   rt.pos, rt.len - rt.pos,
                                                   u.heap),
                          !.utrp.ring_end = u.ring_end + (rt.len - rt.pos),
                          !.rt.pc = "unlock2", !.acc = Acc("rx")]
           ELSE udp' = [udp EXCEPT !.rt.pc = "unlock2"]
    /\ UNCHANGED cpuVars

\* receive_thread(): the unlock at the end of the loop body
ThreadUnlock2 ==
    /\ udp.mutex # "none" /\ udp.rt.pc = "unlock2"
    /\ udp' = [udp EXCEPT !.mutex = SDL_UnlockMutex(udp.mutex, "rx"),
                          !.rt = RtAt("lock1")]
    /\ UNCHANGED cpuVars

\* trp_enable_rx(): SDL_LockMutex
EnableRxCall ==
    /\ udp.mutex # "none" /\ udp.cpu.pc = "idle"
    /\ CanLock(udp.mutex)
    /\ \E enable \in BOOLEAN :
          udp' = [udp EXCEPT !.mutex = SDL_LockMutex(udp.mutex, "cpu"),
                             !.cpu.pc = "en_body", !.cpu.enable = enable,
                             !.cpu.op = "enable_rx"]

EnableRxLock == EnableRxCall /\ UNCHANGED cpuVars

\* trp_enable_rx(): the ring is emptied when disabling, rx_enable is set
EnableRxBody ==
    /\ udp.mutex # "none" /\ udp.cpu.pc = "en_body"
    /\ udp' = [udp EXCEPT
                 !.utrp.ring_start = IF udp.cpu.enable THEN @ ELSE 0,
                 !.utrp.ring_end = IF udp.cpu.enable THEN @ ELSE 0,
                 !.utrp.rx_enable = udp.cpu.enable,
                 !.cpu.pc = "en_unlock", !.acc = Acc("cpu")]
    /\ UNCHANGED cpuVars

\* trp_enable_rx(): SDL_UnlockMutex
EnableRxUnlock ==
    /\ udp.mutex # "none" /\ udp.cpu.pc = "en_unlock"
    /\ udp' = [udp EXCEPT !.mutex = SDL_UnlockMutex(udp.mutex, "cpu"),
                          !.cpu.pc = "idle"]
    /\ UNCHANGED cpuVars

\* Nothing is on its way to the ring: the sender has sent, the socket is
\* empty and the receive thread holds no datagram.
Quiet ==
    /\ udp.phase = "sent"
    /\ udp.sock = <<>>
    /\ udp.rt.pc \in {"lock1", "read", "unlock1", "recv", "returned"}

\* trp_receive(): with a packet in rx_buf its length is reported again;
\* otherwise SDL_LockMutex
ReceiveEnter ==
    /\ udp.mutex # "none" /\ udp.cpu.pc = "idle"
    /\ \/ /\ udp.utrp.rx_len # 0
          /\ udp' = [udp EXCEPT !.cpu.plen = udp.utrp.rx_len,
                                !.cpu.ret = TRUE,
                                !.cpu.op = "receive",
                                !.cpu.quiet = Quiet]
       \/ /\ udp.utrp.rx_len = 0
          /\ CanLock(udp.mutex)
          /\ udp' = [udp EXCEPT !.mutex = SDL_LockMutex(udp.mutex, "cpu"),
                                !.cpu.pc = "rcv_body1",
                                !.cpu.op = "receive",
                                !.cpu.quiet = Quiet]

ReceiveCall == ReceiveEnter /\ UNCHANGED cpuVars

\* trp_receive(): the length of the first packet of the ring, and the copy
\* of the part of it that lies before the end of the ring
ReceiveBody1 ==
    /\ udp.mutex # "none" /\ udp.cpu.pc = "rcv_body1"
    /\ LET u == udp.utrp
           len == 2 * (be16(u.ring_buf, u.ring_start, u.heap) + 2)
           pos == UDP_RING_BUFFER_SIZE - u.ring_start
       IN  IF u.ring_end > u.ring_start
           THEN IF len + u.ring_start > u.ring_end
                THEN udp' = [udp EXCEPT
                               !.mutex = SDL_UnlockMutex(udp.mutex, "cpu"),
                               !.cpu.pc = "idle", !.cpu.ret = FALSE,
                               !.acc = Acc("cpu")]
                ELSE IF u.ring_start + len >= UDP_RING_BUFFER_SIZE
                THEN udp' = [udp EXCEPT
                               !.utrp.rx_buf = memcpy(@, 0, u.ring_buf,
                                                      u.ring_start, pos,
                                                      u.heap),
                               !.utrp.ring_start = 0,
                               !.utrp.ring_end =
                                   u.ring_end - UDP_RING_BUFFER_SIZE,
                               !.cpu.len = len, !.cpu.pos = pos,
                               !.cpu.pc = "rcv_body2", !.acc = Acc("cpu")]
                ELSE udp' = [udp EXCEPT
                               !.cpu.len = len, !.cpu.pos = 0,
                               !.cpu.pc = "rcv_body2", !.acc = Acc("cpu")]
           ELSE udp' = [udp EXCEPT !.cpu.len = 0, !.cpu.pos = 0,
                                   !.cpu.pc = "rcv_unlock",
                                   !.acc = Acc("cpu")]
    /\ UNCHANGED cpuVars

\* A packet that is copied out and stays in the ring
ring_consume_none(ring_start, n) == ring_start

\* trp_receive(): ring_start moves behind the bytes copied out
ring_consume(ring_start, n) == ring_start + n

\* trp_receive(): the copy of the rest of the packet
ReceiveBody2 ==
    /\ udp.mutex # "none" /\ udp.cpu.pc = "rcv_body2"
    /\ LET u == udp.utrp
           c == udp.cpu
       IN  IF c.pos < c.len
           THEN udp' = [udp EXCEPT
                          !.utrp.rx_buf = memcpy(@, c.pos, u.ring_buf,
                                                 u.ring_start, c.len - c.pos,
                                                 u.heap),
                          !.utrp.ring_start =
                              ring_consume(u.ring_start, c.len - c.pos),
                          !.cpu.pc = "rcv_unlock", !.acc = Acc("cpu")]
           ELSE udp' = [udp EXCEPT !.cpu.pc = "rcv_unlock"]
    /\ UNCHANGED cpuVars

\* trp_receive(): SDL_UnlockMutex, then rx_pos, rx_len and *plen are set
ReceiveUnlock ==
    /\ udp.mutex # "none" /\ udp.cpu.pc = "rcv_unlock"
    /\ udp' = [udp EXCEPT !.mutex = SDL_UnlockMutex(udp.mutex, "cpu"),
                          !.utrp.rx_pos = 0, !.utrp.rx_len = udp.cpu.len,
                          !.cpu.plen = udp.cpu.len, !.cpu.ret = TRUE,
                          !.cpu.len = 0, !.cpu.pos = 0,
                          !.cpu.got = <<>>,
                          !.cpu.pc = "idle"]
    /\ UNCHANGED cpuVars

\* trp_get_rx_data(), called while trp_has_rx_data() reports data
GetRxData ==
    /\ udp.mutex # "none" /\ udp.cpu.pc = "idle"
    /\ trp_has_rx_data(udp.utrp) > 0
    /\ LET r == trp_get_rx_data(udp.utrp)
       IN  udp' = [udp EXCEPT !.utrp = r.utrp,
                              !.cpu.got = Append(@, r.data),
                              !.cpu.op = "get_rx_data"]
    /\ UNCHANGED cpuVars

\* trp_clear_rx() of a received packet
ClearRx ==
    /\ udp.mutex # "none" /\ udp.cpu.pc = "idle"
    /\ udp.utrp.rx_len # 0
    /\ udp' = [udp EXCEPT !.utrp = trp_clear_rx(udp.utrp),
                          !.cpu.op = "clear_rx"]
    /\ UNCHANGED cpuVars

(***************************************************************************)
(* The peer that sends: it builds one frame of the words of its plan with  *)
(* trp_clear_tx(), trp_append_tx() and trp_send(); the datagram travels to *)
(* the socket of the receiving transport.                                  *)
(***************************************************************************)
\* The longest frame recvfrom() takes whole: 2 bytes of length and the
\* words fill UDP_PACKET_SIZE - 2 bytes.
MaxPayload == (UDP_PACKET_SIZE - 4) \div 2

\* The i-th word of the word sequence W of a plan.
PlanWord(pattern, i) == (i * 259 + pattern * 4660) % W16

Plans ==
    {pl \in [len : (0..MaxSmallLen) \cup {MaxPayload}, pattern : {1, 2}] :
        pl.len <= MaxSmallLen \/ pl.pattern = 1}

\* The bytes malloc may have left in a buffer, and the places of the ring
\* where the next packet may start.
HeapBytes == {0, 165}
RingOffsets == {0, UDP_RING_BUFFER_SIZE - 4}

MkDgram(seq) ==
    [len |-> Len(seq), bytes |-> [i \in 0..(Len(seq) - 1) |-> seq[i + 1]]]

\* The datagrams other hosts send to the port: a frame of one word, a frame
\* that declares two words and carries one, an empty datagram, and a frame
\* of one word followed by a stray byte.
Datagrams ==
    {MkDgram(<<0, 1, 171, 205>>), MkDgram(<<0, 2, 171, 205>>),
     MkDgram(<<>>), MkDgram(<<0, 1, 18, 52, 86>>)}

InitUdp(e, plans, offsets) ==
    /\ sim = simulator_reset(Created(SYS.ALTO_II_3KRAM, 0))
    /\ microcode = EmptyArr
    /\ hist = [op |-> "reset", pre |-> sim, steps |-> 0, writes |-> 0,
               resets |-> 0, reads |-> -1, reads_pre |-> -1]
    /\ env = e
    /\ fx = NoFx
    /\ ps = NoPs
    /\ \E pl \in plans, heap \in HeapBytes, offset \in offsets :
          udp = [plan |-> pl, phase |-> "fresh", appended |-> 0,
                 peer |-> udp_transport_create(heap),
                 sock |-> <<>>, delivered |-> 0,
                 utrp |-> [udp_transport_create(heap) EXCEPT
                             !.ring_start = offset, !.ring_end = offset],
                 mutex |-> "free",
                 rt |-> RtAt("lock1"),
                 cpu |-> [pc |-> "idle", op |-> "none", enable |-> TRUE,
                          len |-> 0, pos |-> 0, plen |-> -1, ret |-> TRUE,
                          got |-> <<>>, quiet |-> FALSE],
                 acc |-> [thread |-> "none", held |-> TRUE],
                 res |-> [sockfd |-> "open", bufs |-> "live"]]

\* trp_clear_tx() on the peer
ClearTx ==
    /\ udp.mutex # "none" /\ udp.phase = "fresh"
    /\ udp' = [udp EXCEPT !.peer = trp_clear_tx(udp.peer),
                          !.phase = "cleared"]
    /\ UNCHANGED cpuVars

\* trp_append_tx() on the peer, of the next word of W
AppendTx ==
    /\ udp.mutex # "none" /\ udp.phase = "cleared"
    /\ udp.appended < udp.plan.len
    /\ LET r == trp_append_tx(udp.peer,
                              PlanWord(udp.plan.pattern, udp.appended + 1))
       IN  udp' = [udp EXCEPT !.peer = r.utrp,
                              !.appended = IF r.ret THEN @ + 1 ELSE @,
                              !.phase = IF r.ret THEN @ ELSE "failed"]
    /\ UNCHANGED cpuVars

\* trp_send() on the peer; the network hands the datagram to the socket
Send ==
    /\ udp.mutex # "none" /\ udp.phase = "cleared"
    /\ udp.appended = udp.plan.len
    /\ LET r == trp_send(udp.peer)
       IN  udp' = [udp EXCEPT !.peer = r.utrp,
                              !.sock = Append(@, r.dgram),
                              !.phase = "sent"]
    /\ UNCHANGED cpuVars

\* A datagram of another host arrives at the socket.
Deliver ==
    /\ udp.mutex # "none" /\ udp.delivered < MaxDatagrams
    /\ \E d \in Datagrams :
          udp' = [udp EXCEPT !.sock = Append(@, d),
                             !.delivered = @ + 1]
    /\ UNCHANGED cpuVars

ThreadNext ==
    \/ ThreadLock \/ ThreadRead \/ ThreadUnlock1 \/ ThreadRecv
    \/ ThreadCheck \/ ThreadStore1 \/ ThreadStore2 \/ ThreadUnlock2

\* One frame from a peer to a transport whose CPU thread polls
\* trp_receive() and reads the words.
InitFrame == InitUdp("frame", Plans, RingOffsets)

NextFrame ==
    \/ ClearTx \/ AppendTx \/ Send
    \/ ThreadNext
    \/ ReceiveCall \/ ReceiveBody1 \/ ReceiveBody2 \/ ReceiveUnlock
    \/ GetRxData

SpecFrame == InitFrame /\ [][NextFrame]_vars

\* The two threads of one transport, with datagrams of other hosts
\* arriving while the CPU thread enables, disables and polls reception.
InitRing == InitUdp("ring", {[len |-> 0, pattern |-> 1]}, RingOffsets)

NextRing ==
    \/ Deliver
    \/ ThreadNext
    \/ EnableRxLock \/ EnableRxBody \/ EnableRxUnlock
    \/ ReceiveCall \/ ReceiveBody1 \/ ReceiveBody2 \/ ReceiveUnlock
    \/ GetRxData \/ ClearRx

SpecRing == InitRing /\ [][NextRing]_vars

(***************************************************************************)
(* The life cycle of the psim object (src/src/psim.c: main, psim_create,   *)
(* psim_destroy) and of the simulator inside it (simulator_create,         *)
(* simulator_destroy).  The heap is a function from the pointer fields of  *)
(* struct psim and struct simulator to the pointer's value, the number of  *)
(* blocks malloc returned for it and the number of free() calls made on    *)
(* such a block.                                                           *)
(***************************************************************************)
SimBuffers ==
    {"r", "s", "consts", "microcode", "task_mpc", "mem", "xm_banks",
     "sr_banks"}

PsimBuffers == {"bps", "cmd_buf", "out_buf"}

Buffers == SimBuffers \cup PsimBuffers

\* p = NULL, for a field no block was ever allocated for
NullPtr == [ptr |-> "NULL", blocks |-> 0, frees |-> 0]

\* p = malloc(...), which returns NULL when the allocation fails
malloc(ok) ==
    IF ok THEN [ptr |-> "block", blocks |-> 1, frees |-> 0] ELSE NullPtr

\* if (p) free((void *) p);
free_ptr(b) == IF b.ptr # "NULL" THEN [b EXCEPT !.frees = @ + 1] ELSE b

\* p = NULL;
set_null(b) == [b EXCEPT !.ptr = "NULL"]

simulator_initvar(heap) ==
    [n \in DOMAIN heap |->
        IF n \in SimBuffers THEN set_null(heap[n]) ELSE heap[n]]

\* The statements of simulator_destroy in their order; after the test of
\* sim->consts it is sim->microcode that is set to NULL.
simulator_destroy(heap) ==
    LET h1 == [heap EXCEPT !["r"] = set_null(free_ptr(@)),
                           !["s"] = set_null(free_ptr(@))]
        h2 == [h1 EXCEPT !["consts"] = free_ptr(@)]
        h3 == [h2 EXCEPT !["microcode"] = set_null(@)]
        h4 == [h3 EXCEPT !["microcode"] = set_null(free_ptr(@))]
    IN  [h4 EXCEPT !["task_mpc"] = set_null(free_ptr(@)),
                   !["mem"] = set_null(free_ptr(@)),
                   !["xm_banks"] = set_null(free_ptr(@)),
                   !["sr_banks"] = set_null(free_ptr(@))]

\* The peripherals simulator_create creates, in its order; dev_fail is the
\* one whose create function fails, "none" when all succeed.
Peripherals == <<"disk", "display", "ethernet", "keyboard", "mouse">>

DevFails == {"none"} \cup {Peripherals[i] : i \in DOMAIN Peripherals}

\* simulator_create: failed is the set of fields whose malloc fails.
simulator_create(heap, failed, dev_fail) ==
    LET h0 == simulator_initvar(heap)
        h1 == [n \in DOMAIN h0 |->
                 IF n \in SimBuffers THEN malloc(n \notin failed) ELSE h0[n]]
    IN  IF \E n \in SimBuffers : h1[n].ptr = "NULL"
        THEN [heap |-> simulator_destroy(h1), ret |-> FALSE]
        ELSE IF dev_fail # "none"
        THEN [heap |-> simulator_destroy(h1), ret |-> FALSE]
        ELSE [heap |-> h1, ret |-> TRUE]

psim_initvar(heap) == [n \in Buffers |-> NullPtr]

psim_destroy(heap) ==
    LET h1 == [heap EXCEPT !["bps"] = set_null(free_ptr(@)),
                           !["cmd_buf"] = set_null(free_ptr(@)),
                           !["out_buf"] = set_null(free_ptr(@))]
    IN  simulator_destroy(h1)

\* psim_create: gui_ok is what gui_create returns.
psim_create(heap, failed, dev_fail, gui_ok) ==
    LET h0 == psim_initvar(heap)
        h1 == [n \in DOMAIN h0 |->
                 IF n \in PsimBuffers THEN malloc(n \notin failed) ELSE h0[n]]
        sc == simulator_create(h1, failed, dev_fail)
    IN  IF \E n \in PsimBuffers : h1[n].ptr = "NULL"
        THEN [heap |-> psim_destroy(h1), ret |-> FALSE, at |-> "malloc"]
        ELSE IF ~sc.ret
        THEN [heap |-> psim_destroy(sc.heap), ret |-> FALSE,
              at |-> "simulator_create"]
        ELSE IF ~gui_ok
        THEN [heap |-> sc.heap, ret |-> FALSE, at |-> "gui_create"]
        ELSE [heap |-> sc.heap, ret |-> TRUE, at |-> "none"]

\* free() of a block that is already free is undefined: the C library may
\* abort the process there or let it run on.
DoubleFreed(heap) == \E n \in DOMAIN heap : heap[n].frees > heap[n].blocks

InitLife ==
    /\ sim = simulator_reset(Created(SYS.ALTO_II_3KRAM, 0))
    /\ microcode = EmptyArr
    /\ hist = [op |-> "reset", pre |-> sim, steps |-> 0, writes |-> 0,
               resets |-> 0, reads |-> -1, reads_pre |-> -1]
    /\ env = "life"
    /\ fx = NoFx
    /\ udp = NoUdp
    /\ ps = [stage |-> "main", heap |-> psim_initvar(<<>>),
             created |-> "unknown", at |-> "none", status |-> -1]

\* main: the call of psim_create and the return that follows its failure
MainCreate ==
    /\ ps.stage = "main"
    /\ \E failed \in SUBSET Buffers, dev_fail \in DevFails,
          gui_ok \in BOOLEAN, aborts \in BOOLEAN :
          LET c == psim_create(ps.heap, failed, dev_fail, gui_ok)
          IN  ps' = IF DoubleFreed(c.heap) /\ aborts
                    THEN [ps EXCEPT !.stage = "aborted", !.heap = c.heap,
                                    !.at = c.at]
                    ELSE IF c.ret
                    THEN [ps EXCEPT !.stage = "run", !.heap = c.heap,
                                    !.created = "yes"]
                    ELSE [ps EXCEPT !.stage = "exit", !.heap = c.heap,
                                    !.created = "no", !.at = c.at,
                                    !.status = 1]
    /\ UNCHANGED <<sim, microcode, hist, env, fx, udp>>

\* main: psim_run, then psim_destroy and the return, on both outcomes
MainRun ==
    /\ ps.stage = "run"
    /\ \E run_ok \in BOOLEAN :
          ps' = [ps EXCEPT !.stage = "exit",
                           !.heap = psim_destroy(ps.heap),
                           !.status = IF run_ok THEN 0 ELSE 1]
    /\ UNCHANGED <<sim, microcode, hist, env, fx, udp>>

NextLife == MainCreate \/ MainRun

SpecLife == InitLife /\ [][NextLife]_vars

(***************************************************************************)
(* udp_transport_destroy(), called by the thread that owns the transport   *)
(* while the receive thread runs.  Its statements are taken in the order   *)
(* of the source: the descriptor is closed and the four buffers are freed  *)
(* first, then running is cleared under the mutex and the thread joined.   *)
(***************************************************************************)
\* close(utrp->sockfd); utrp->sockfd = -1;
DestroyClose ==
    /\ udp.mutex # "none" /\ udp.cpu.pc = "idle"
    /\ udp' = [udp EXCEPT !.res.sockfd = "closed", !.cpu.pc = "d_free",
                          !.cpu.op = "destroy"]
    /\ UNCHANGED cpuVars

\* tx_buf, rx_buf, ring_buf and pkt_buf are freed and set to NULL
DestroyFree ==
    /\ udp.mutex # "none" /\ udp.cpu.pc = "d_free"
    /\ udp' = [udp EXCEPT !.res.bufs = "freed", !.cpu.pc = "d_lock"]
    /\ UNCHANGED cpuVars

\* SDL_LockMutex(iutrp->mutex);
DestroyLock ==
    /\ udp.mutex # "none" /\ udp.cpu.pc = "d_lock"
    /\ CanLock(udp.mutex)
    /\ udp' = [udp EXCEPT !.mutex = SDL_LockMutex(udp.mutex, "cpu"),
                          !.cpu.pc = "d_stop"]
    /\ UNCHANGED cpuVars

\* iutrp->running = FALSE; SDL_UnlockMutex(iutrp->mutex);
DestroyStop ==
    /\ udp.mutex # "none" /\ udp.cpu.pc = "d_stop"
    /\ udp' = [udp EXCEPT !.utrp.running = FALSE,
                          !.mutex = SDL_UnlockMutex(udp.mutex, "cpu"),
                          !.cpu.pc = "d_join", !.acc = Acc("cpu")]
    /\ UNCHANGED cpuVars

\* SDL_WaitThread() returns when the thread function has returned; the
\* mutex and the internal structure are released after it.
DestroyJoin ==
    /\ udp.mutex # "none" /\ udp.cpu.pc = "d_join"
    /\ udp.rt.pc = "returned"
    /\ udp' = [udp EXCEPT !.cpu.pc = "destroyed"]
    /\ UNCHANGED cpuVars

DestroyNext ==
    \/ DestroyClose \/ DestroyFree \/ DestroyLock \/ DestroyStop
    \/ DestroyJoin

\* The receive thread is at a memcpy() into the ring.
CopiesAt(u) ==
    LET ring_pos == IF u.utrp.ring_end >= UDP_RING_BUFFER_SIZE
                    THEN u.utrp.ring_end - UDP_RING_BUFFER_SIZE
                    ELSE u.utrp.ring_end
    IN  \/ u.rt.pc = "store1" /\ ring_pos + u.rt.len >= UDP_RING_BUFFER_SIZE
        \/ u.rt.pc = "store2" /\ u.rt.pos < u.rt.len

\* A memcpy() through utrp->ring_buf and utrp->pkt_buf after they were
\* freed and set to NULL is undefined: the process may be killed there
\* (this action), or the copy may go through (ThreadStore1, ThreadStore2).
ThreadFault ==
    /\ udp.mutex # "none" /\ udp.res.bufs = "freed"
    /\ CopiesAt(udp)
    /\ udp' = [udp EXCEPT !.rt.pc = "killed", !.cpu.pc = "killed"]
    /\ UNCHANGED cpuVars

\* A transport with reception enabled or disabled by its owner, datagrams
\* arriving, and the owner destroying it at any time.
InitStop == InitUdp("stop", {[len |-> 0, pattern |-> 1]}, {0})

NextStop ==
    \/ Deliver
    \/ ThreadNext \/ ThreadFault
    \/ EnableRxLock \/ EnableRxBody \/ EnableRxUnlock
    \/ DestroyNext

SpecStop ==
    /\ InitStop /\ [][NextStop]_vars
    /\ WF_vars(ThreadNext \/ ThreadFault)
    /\ WF_vars(DestroyNext)

(***************************************************************************)
(* The debugger of psim (src/src/psim.c): the breakpoint table, the        *)
(* commands that change it and the loop of psim_simulate.                  *)
(***************************************************************************)
\* The number of slots of the breakpoint table (ps->max_breakpoints).
MaxBreakpoints == 3

\* struct breakpoint
Breakpoint(available, enable, task, ntask, mpc, on_task_switch, fmt, mask) ==
    [available |-> available, enable |-> enable, task |-> task,
     ntask |-> ntask, mpc |-> mpc, on_task_switch |-> on_task_switch,
     mir_fmt |-> fmt, mir_mask |-> mask]

\* A uint32_t as its two 16-bit halves.
Word32(val) == [hi |-> (val \div W16) % W16, lo |-> val % W16]

\* What malloc may leave in the table: all bits clear or all bits set.
JunkBreakpoints ==
    {Breakpoint(FALSE, FALSE, 0, 0, 0, FALSE, Word32(0), Word32(0)),
     Breakpoint(TRUE, TRUE, 255, 255, 65535, TRUE,
                [hi |-> 65535, lo |-> 65535], [hi |-> 65535, lo |-> 65535])}

\* The 32-bit word of a microinstruction, as its two 16-bit halves: RSEL,
\* ALUF, BS, F1, F2, load-T, load-L and NEXT from the most significant bit
\* down.
MirWord(m) ==
    [hi |-> m.f1 + 2^4 * m.bs + 2^7 * m.aluf + 2^11 * m.rsel,
     lo |-> m.next + 2^10 * (IF m.load_l THEN 1 ELSE 0)
                   + 2^11 * (IF m.load_t THEN 1 ELSE 0) + 2^12 * m.f2]

\* A word of the command line is a flag, compared by strcmp(), or a
\* numeral: its characters, a digit d as d and a letter as 10 or more.
Flag(text) == [text |-> text, chars |-> <<>>]
Numeral(chars) == [text |-> "", chars |-> chars]

\* The number of leading characters of `chars` that are digits of `base`.
RECURSIVE DigitPrefix(_, _)
DigitPrefix(chars, base) ==
    IF chars = <<>> \/ Head(chars) >= base THEN 0
    ELSE 1 + DigitPrefix(Tail(chars), base)

RECURSIVE DigitsValue(_, _, _)
DigitsValue(chars, n, base) ==
    IF n = 0 THEN 0
    ELSE DigitsValue(chars, n - 1, base) * base + chars[n]

\* strtoul(arg, &end, base): the value of the longest numeral at the start
\* of the word, and whether end[0] is '\0' after it.  A word without a
\* leading digit converts to 0 with end left at its start.
strtoul(arg, base) ==
    LET n == DigitPrefix(arg.chars, base)
    IN  IF arg.text # "" \/ n = 0 THEN [val |-> 0, at_end |-> FALSE]
        ELSE [val |-> DigitsValue(arg.chars, n, base),
              at_end |-> n = Len(arg.chars)]

\* psim_debug before its loop: every slot but 0 is made available.
psim_debug_enter(bps) ==
    [num \in DOMAIN bps |->
        [bps[num] EXCEPT !.available = (num # 0)]]

\* psim_cmd_add_breakpoint: the highest slot, a search from the wrong end
first_available_from_top(bps) ==
    LET free == {num \in 1..(MaxBreakpoints - 1) : bps[num].available}
    IN  IF free = {} THEN MaxBreakpoints
        ELSE CHOOSE num \in free : \A other \in free : other <= num

\* psim_cmd_add_breakpoint: the slot found by the search from 1, or
\* max_breakpoints when none is available
first_available(bps) ==
    LET free == {num \in 1..(MaxBreakpoints - 1) : bps[num].available}
    IN  IF free = {} THEN MaxBreakpoints
        ELSE CHOOSE num \in free : \A other \in free : num <= other

\* psim_cmd_add_breakpoint: the loop over the words of the command; `ok`
\* is FALSE where the code returns from inside the loop.
RECURSIVE bp_parse(_, _)
bp_parse(bp, args) ==
    IF args = <<>> THEN [bp |-> bp, ok |-> TRUE]
    ELSE
    LET arg == Head(args)
        rest == Tail(args)
        v == strtoul(Head(rest), 8)
    IN  IF arg.text = "-task"
        THEN IF rest = <<>> THEN [bp |-> bp, ok |-> FALSE]
             ELSE IF ~v.at_end
             THEN [bp |-> [bp EXCEPT !.task = v.val % 256], ok |-> FALSE]
             ELSE bp_parse([bp EXCEPT !.task = v.val % 256,
                                      !.enable = TRUE], Tail(rest))
        ELSE IF arg.text = "-ntask"
        THEN IF rest = <<>> THEN [bp |-> bp, ok |-> FALSE]
             ELSE IF ~v.at_end
             THEN [bp |-> [bp EXCEPT !.ntask = v.val % 256], ok |-> FALSE]
             ELSE bp_parse([bp EXCEPT !.ntask = v.val % 256,
                                      !.enable = TRUE], Tail(rest))
        ELSE IF arg.text = "-on_task_switch"
        THEN bp_parse([bp EXCEPT !.on_task_switch = TRUE,
                                 !.enable = TRUE], rest)
        ELSE IF arg.text = "-mir"
        THEN IF rest = <<>> THEN [bp |-> bp, ok |-> FALSE]
             ELSE IF ~v.at_end
             THEN [bp |-> [bp EXCEPT !.mir_fmt = Word32(v.val)],
                   ok |-> FALSE]
             ELSE IF Tail(rest) = <<>>
             THEN [bp |-> [bp EXCEPT !.mir_fmt = Word32(v.val)],
                   ok |-> FALSE]
             ELSE LET m == strtoul(Head(Tail(rest)), 8)
                      bp2 == [bp EXCEPT !.mir_fmt = Word32(v.val),
                                        !.mir_mask = Word32(m.val)]
                  IN  IF ~m.at_end THEN [bp |-> bp2, ok |-> FALSE]
                      ELSE bp_parse([bp2 EXCEPT !.enable = TRUE],
                                    Tail(Tail(rest)))
        ELSE LET w == strtoul(arg, 8)
             IN  IF ~w.at_end
                 THEN [bp |-> [bp EXCEPT !.mpc = w.val % W16], ok |-> FALSE]
                 ELSE bp_parse([bp EXCEPT !.mpc = w.val % W16,
                                          !.enable = TRUE], rest)

psim_cmd_add_breakpoint(bps, args) ==
    LET num == first_available(bps)
        bp == [bps[num] EXCEPT !.enable = FALSE, !.task = 255,
                               !.ntask = 255, !.mpc = 65535,
                               !.on_task_switch = FALSE,
                               !.mir_fmt = Word32(0),
                               !.mir_mask = Word32(0)]
        p == bp_parse(bp, args)
    IN  IF num >= MaxBreakpoints THEN bps
        ELSE IF ~p.ok \/ ~p.bp.enable THEN [bps EXCEPT ![num] = p.bp]
        ELSE [bps EXCEPT ![num] = [p.bp EXCEPT !.available = FALSE]]

psim_cmd_breakpoint_enable(bps, args, enable) ==
    LET v == strtoul(Head(args), 10)
        num == v.val
    IN  IF args = <<>> THEN bps
        ELSE IF ~v.at_end \/ num = 0 THEN bps
        ELSE IF num >= MaxBreakpoints THEN bps
        ELSE [bps EXCEPT ![num].enable = enable]

\* psim_simulate: the effective number of breakpoints
effective_breakpoints(bps) ==
    LET used == {num \in DOMAIN bps :
                    ~bps[num].available /\ bps[num].enable}
    IN  IF used = {} THEN 0
        ELSE 1 + CHOOSE num \in used : \A other \in used : other <= num

\* psim_simulate: hit1 for one breakpoint, on the simulator state s with
\* the value task_switch of ps->sim.task_switch
bp_hit(bp, s, task_switch) ==
    /\ bp.task = 255 \/ bp.task = s.ctask
    /\ bp.ntask = 255 \/ bp.ntask = s.ntask
    /\ bp.mpc = 65535 \/ bp.mpc = s.mpc
    /\ ~bp.on_task_switch \/ task_switch
    /\ \/ bp.mir_mask = Word32(0)
       \/ /\ BitAnd(MirWord(s.mir).hi, bp.mir_mask.hi) = bp.mir_fmt.hi
          /\ BitAnd(MirWord(s.mir).lo, bp.mir_mask.lo) = bp.mir_fmt.lo

\* psim_simulate: the number of the breakpoint that ends the loop over the
\* table, or -1
breakpoint_hit(bps, effective, s, task_switch) ==
    LET hits == {num \in 0..(effective - 1) :
                    bps[num].enable /\ bp_hit(bps[num], s, task_switch)}
    IN  IF hits = {} THEN -1
        ELSE CHOOSE num \in hits : \A other \in hits : num <= other

\* psim_simulate: a loop that does not ask gui_running()
simulate_ignores_stop(p) ==
    ~(p.max_steps >= 0 /\ p.step = p.max_steps)

\* psim_simulate: the loop goes into another iteration
simulate_continues(p) ==
    p.running /\ ~(p.max_steps >= 0 /\ p.step = p.max_steps)

\* The number of command lines read from the standard input.
MaxCmds == 3

\* The command lines considered: the command word, its arguments, and for
\* bp what the line asks for: a breakpoint ("ok"), or nothing because an
\* argument is invalid or missing or no filter is given.
Cmd(cmd, args, expect) == [cmd |-> cmd, args |-> args, expect |-> expect]

Commands ==
    {Cmd("c", <<>>, "run"), Cmd("n", <<>>, "run"),
     Cmd("n", <<Numeral(<<1, 33>>)>>, "invalid"),
     Cmd("nt", <<>>, "run"), Cmd("nt", <<Numeral(<<4>>)>>, "run"),
     Cmd("bp", <<Flag("-task"), Numeral(<<4>>)>>, "ok"),
     Cmd("bp", <<Numeral(<<1>>)>>, "ok"),
     Cmd("bp", <<Flag("-on_task_switch")>>, "ok"),
     Cmd("bp", <<Flag("-mir"), Numeral(<<4, 0, 0, 0, 0, 0>>),
                 Numeral(<<3, 6, 0, 0, 0, 0, 0>>)>>, "ok"),
     Cmd("bp", <<>>, "no filter"),
     Cmd("bp", <<Numeral(<<9>>)>>, "invalid"),
     Cmd("bp", <<Flag("-task"), Numeral(<<4>>), Flag("-ntask")>>,
         "invalid"),
     Cmd("be", <<Numeral(<<1>>)>>, "ok"),
     Cmd("be", <<Numeral(<<0>>)>>, "invalid"),
     Cmd("bd", <<Numeral(<<1>>)>>, "ok"),
     Cmd("bd", <<>>, "invalid"),
     Cmd("q", <<>>, "quit"),
     Cmd("zz", <<>>, "invalid")}

\* psim_cmd_continue, psim_cmd_next and psim_cmd_next_task up to their call
\* of psim_simulate: slot 0 of the table and max_steps, or "no run" where
\* the argument is rejected.
run_setup(bps, c) ==
    LET v == strtoul(Head(c.args), IF c.cmd = "n" THEN 10 ELSE 8)
        off == [bps EXCEPT ![0].enable = FALSE]
    IN  IF c.cmd = "c" THEN [run |-> TRUE, bps |-> off, max_steps |-> -1]
        ELSE IF c.cmd = "n"
        THEN IF c.args = <<>>
             THEN [run |-> TRUE, bps |-> off, max_steps |-> 1]
             ELSE IF ~v.at_end
             THEN [run |-> FALSE, bps |-> bps, max_steps |-> 0]
             ELSE [run |-> TRUE, bps |-> off, max_steps |-> v.val]
        ELSE IF c.args # <<>> /\ ~v.at_end
        THEN [run |-> FALSE, bps |-> bps, max_steps |-> 0]
        ELSE [run |-> TRUE,
              bps |-> [bps EXCEPT ![0] =
                         [@ EXCEPT
                            !.enable = TRUE,
                            !.task = IF c.args = <<>> THEN 255
                                     ELSE v.val % 256,
                            !.ntask = 255, !.mpc = 65535,
                            !.on_task_switch = TRUE,
                            !.mir_mask = Word32(0),
                            !.mir_fmt = Word32(0)]],
              max_steps |-> -1]

\* psim just after psim_debug has prepared the table; task_switch is the
\* field of ps->sim that no function assigns.
InitDbg ==
    /\ sim = simulator_reset(Created(SYS.ALTO_II_3KRAM, 0))
    /\ microcode = EmptyArr
    /\ hist = [op |-> "reset", pre |-> sim, steps |-> 0, writes |-> 0,
               resets |-> 0, reads |-> -1, reads_pre |-> -1]
    /\ env = "dbg"
    /\ fx = NoFx
    /\ udp = NoUdp
    /\ \E junk \in JunkBreakpoints, task_switch \in BOOLEAN :
          ps = [stage |-> "debug", pc |-> "head", running |-> TRUE,
                ret |-> TRUE, task_switch |-> task_switch,
                bps |-> psim_debug_enter(
                            [num \in 0..(MaxBreakpoints - 1) |-> junk]),
                effective |-> 0, max_steps |-> 0, step |-> 0, cmds |-> 0,
                last |-> [cmd |-> "none", expect |-> "none"]]

\* The debugger of a machine whose microcode holds a word with an ALU
\* function that does not exist, which puts the simulator into the error
\* state.
InitHalt ==
    /\ sim = simulator_reset(Created(SYS.ALTO_II_3KRAM, 0))
    /\ microcode = EmptyArr
    /\ hist = [op |-> "reset", pre |-> sim, steps |-> 0, writes |-> 0,
               resets |-> 0, reads |-> -1, reads_pre |-> -1]
    /\ env = "halt"
    /\ fx = NoFx
    /\ udp = NoUdp
    /\ \E junk \in JunkBreakpoints, task_switch \in BOOLEAN :
          ps = [stage |-> "debug", pc |-> "head", running |-> TRUE,
                ret |-> TRUE, task_switch |-> task_switch,
                bps |-> psim_debug_enter(
                            [num \in 0..(MaxBreakpoints - 1) |-> junk]),
                effective |-> 0, max_steps |-> 0, step |-> 0, cmds |-> 0,
                last |-> [cmd |-> "none", expect |-> "none"]]

\* psim_debug: gui_running() is false at the head of the loop
DebugReturn ==
    /\ ps.stage = "debug" /\ ps.pc = "head"
    /\ ~ps.running
    /\ ps' = [ps EXCEPT !.pc = "returned"]
    /\ UNCHANGED <<sim, microcode, hist, env, fx, udp>>

\* psim_debug: one turn of the loop: gui_update(), a command line is read
\* and its handler called; c, n and nt go into psim_simulate.
DebugCommand ==
    /\ ps.stage = "debug" /\ ps.pc = "head"
    /\ ps.running
    /\ ps.cmds < MaxCmds
    /\ \E c \in Commands, updated \in BOOLEAN :
          LET p == [ps EXCEPT !.cmds = @ + 1,
                              !.last = [cmd |-> c.cmd,
                                        expect |-> c.expect]]
              r == run_setup(ps.bps, c)
          IN  ps' =
                IF ~updated
                THEN [ps EXCEPT !.pc = "returned", !.ret = FALSE]
                ELSE IF c.cmd \in {"c", "n", "nt"}
                THEN IF r.run
                     THEN [p EXCEPT
                             !.bps = r.bps, !.max_steps = r.max_steps,
                             !.step = 0, !.pc = "simulate",
                             !.effective = effective_breakpoints(r.bps)]
                     ELSE p
                ELSE IF c.cmd = "bp"
                THEN [p EXCEPT
                        !.bps = psim_cmd_add_breakpoint(ps.bps, c.args)]
                ELSE IF c.cmd \in {"be", "bd"}
                THEN [p EXCEPT
                        !.bps = psim_cmd_breakpoint_enable(
                                    ps.bps, c.args, c.cmd = "be")]
                ELSE IF c.cmd = "q"
                THEN [p EXCEPT !.running = FALSE, !.pc = "returned"]
                ELSE p
    /\ UNCHANGED <<sim, microcode, hist, env, fx, udp>>

\* psim_simulate returns to the loop of psim_debug; its local variables
\* are gone.
simulate_return(p) ==
    [p EXCEPT !.pc = "head", !.step = 0, !.max_steps = 0, !.effective = 0]

\* psim_simulate: one turn of its loop: the tests of gui_running() and of
\* max_steps, simulator_step() and the check of the breakpoints; on the
\* return the command handler prints the registers.
SimulateIter ==
    /\ ps.stage = "debug" /\ ps.pc = "simulate"
    /\ IF simulate_continues(ps)
       THEN /\ StepCpu
            /\ LET hit == breakpoint_hit(ps.bps, ps.effective, sim',
                                         ps.task_switch)
               IN  ps' = IF hit >= 0 THEN simulate_return(ps)
                         ELSE [ps EXCEPT !.step = @ + 1]
       ELSE /\ ps' = simulate_return(ps)
            /\ UNCHANGED <<sim, microcode, hist>>
    /\ UNCHANGED <<env, fx, udp>>

\* The GUI is stopped from its window.
GuiStop ==
    /\ ps.stage = "debug" /\ ps.pc # "returned"
    /\ ps.running
    /\ ps' = [ps EXCEPT !.running = FALSE]
    /\ UNCHANGED <<sim, microcode, hist, env, fx, udp>>

\* A peripheral raises the pending bit of its task while the CPU runs.
SimulateWakeup == ps.stage = "debug" /\ ps.pc = "simulate" /\ Wakeup

NextDbg ==
    \/ DebugCommand \/ DebugReturn \/ SimulateIter \/ GuiStop
    \/ SimulateWakeup

SpecDbg == InitDbg /\ [][NextDbg]_vars

SpecHalt == InitHalt /\ [][NextDbg]_vars

(***************************************************************************)
(* Loading the ROM images: simulator_load_constant_rom() and               *)
(* simulator_load_microcode_rom().  A file is a record of its length in    *)
(* bytes and of the pattern that gives its bytes; a file name is NULL, a   *)
(* file that cannot be opened, or a file.                                  *)
(***************************************************************************)
CONSTANT_SIZE == 256

MICROCODE_SIZE == 1024

NUM_MICROCODE_BANKS == 4

EOF == -1

MaxLoads == 2

NullName == [name |-> "NULL"]

NoSuchFile == [name |-> "file", opens |-> FALSE, len |-> 0, pattern |-> 1]

RomFile(len, pattern) ==
    [name |-> "file", opens |-> TRUE, len |-> len, pattern |-> pattern]

\* The lengths around the size of an image of size bytes.
RomLengths(size) == {0, size - 2, size - 1, size, size + 1}

FileNames(size) ==
    {NullName, NoSuchFile, RomFile(size, 130)}
        \cup {RomFile(len, 1) : len \in RomLengths(size)}

\* The byte of a file at a position.
FileByte(file, pos) == (file.pattern + 3 * pos + pos \div 256) % 256

\* fgetc() at a position of the stream
fgetc(file, pos) == IF pos < file.len THEN FileByte(file, pos) ELSE EOF

\* val = c0 & 0xFF; val |= (c1 & 0xFF) << 8
rom_word16(c0, c1) == (c0 % 256) + 256 * (c1 % 256)

\* The number of turns of the reading loop that reach their store: a turn
\* leaves by error_eof at the first fgetc() that returns EOF, so turn i
\* stores its word when the file holds the width bytes from width * i.
words_stored(file, count, width) ==
    LET whole == file.len \div width
    IN  IF whole < count THEN whole ELSE count

\* The test after the loop is left out.
excess_ignored(file, pos) == FALSE

\* c = fgetc(fp); if (c != EOF): the file is longer than the image
excess_bytes(file, pos) == fgetc(file, pos) # EOF

simulator_load_constant_rom(s, filename) ==
    IF filename = NullName THEN [sim |-> s, ret |-> TRUE]
    ELSE IF ~filename.opens THEN [sim |-> s, ret |-> FALSE]
    ELSE
      LET n == words_stored(filename, CONSTANT_SIZE, 2)
          consts == [i \in 0..(CONSTANT_SIZE - 1) |->
                        IF i < n
                        THEN rom_word16(fgetc(filename, 2 * i),
                                        fgetc(filename, 2 * i + 1))
                        ELSE s.consts[i]]
          loaded == [s EXCEPT !.consts = consts]
      IN  IF n < CONSTANT_SIZE THEN [sim |-> loaded, ret |-> FALSE]
          ELSE IF excess_bytes(filename, 2 * CONSTANT_SIZE)
          THEN [sim |-> loaded, ret |-> FALSE]
          ELSE [sim |-> loaded, ret |-> TRUE]

\* The store is a function of the words written so far; a word is the
\* record of its two 16-bit halves.
simulator_load_microcode_rom(mcode, filename, bank) ==
    IF bank >= 2 THEN [microcode |-> mcode, ret |-> FALSE]
    ELSE IF filename = NullName THEN [microcode |-> mcode, ret |-> TRUE]
    ELSE IF ~filename.opens THEN [microcode |-> mcode, ret |-> FALSE]
    ELSE
      LET offset == IF bank # 0 THEN MICROCODE_SIZE ELSE 0
          n == words_stored(filename, MICROCODE_SIZE, 4)
          loaded == [a \in DOMAIN mcode \cup {offset + i : i \in 0..(n - 1)} |->
                       IF a >= offset /\ a < offset + n
                       THEN LET i == a - offset
                            IN  [lo |-> rom_word16(fgetc(filename, 4 * i),
                                                   fgetc(filename, 4 * i + 1)),
                                 hi |-> rom_word16(fgetc(filename, 4 * i + 2),
                                                   fgetc(filename, 4 * i + 3))]
                       ELSE mcode[a]]
      IN  IF n < MICROCODE_SIZE THEN [microcode |-> loaded, ret |-> FALSE]
          ELSE IF excess_bytes(filename, 4 * MICROCODE_SIZE)
          THEN [microcode |-> loaded, ret |-> FALSE]
          ELSE [microcode |-> loaded, ret |-> TRUE]

\* A created simulator whose ROMs are about to be loaded.
InitRom ==
    /\ sim = simulator_reset(Created(SYS.ALTO_II_3KRAM, 0))
    /\ microcode = EmptyArr
    /\ hist = [op |-> "reset", pre |-> sim, steps |-> 0, writes |-> 0,
               resets |-> 0, reads |-> -1, reads_pre |-> -1]
    /\ env = "rom"
    /\ fx = NoFx
    /\ udp = NoUdp
    /\ ps = [stage |-> "rom", loads |-> 0, fn |-> "none",
             filename |-> NullName, bank |-> 0, ret |-> TRUE]

LoadConstantRom ==
    /\ ps.stage = "rom"
    /\ ps.loads < MaxLoads
    /\ \E filename \in FileNames(2 * CONSTANT_SIZE) :
          LET out == simulator_load_constant_rom(sim, filename)
          IN  /\ sim' = out.sim
              /\ ps' = [ps EXCEPT !.loads = ps.loads + 1,
                                  !.fn = "constant",
                                  !.filename = filename, !.bank = 0,
                                  !.ret = out.ret]
    /\ UNCHANGED <<microcode, hist, env, fx, udp>>

LoadMicrocodeRom ==
    /\ ps.stage = "rom"
    /\ ps.loads < MaxLoads
    /\ \E filename \in FileNames(4 * MICROCODE_SIZE),
          bank \in 0..(NUM_MICROCODE_BANKS - 1) :
          LET out == simulator_load_microcode_rom(microcode, filename, bank)
          IN  /\ microcode' = out.microcode
              /\ ps' = [ps EXCEPT !.loads = ps.loads + 1,
                                  !.fn = "microcode",
                                  !.filename = filename, !.bank = bank,
                                  !.ret = out.ret]
    /\ UNCHANGED <<sim, hist, env, fx, udp>>

NextRom == LoadConstantRom \/ LoadMicrocodeRom

SpecRom == InitRom /\ [][NextRom]_vars

(***************************************************************************)
(* The AltoFS page allocator: the pages of a file system with their        *)
(* labels, the bitmap of used pages and the count of free pages, and the   *)
(* operations that allocate and release pages.  A file is the chain of the *)
(* pages that carry its serial number, from the leader page (page number   *)
(* 0) along next_rda; next_rda = 0 ends a chain.                           *)
(***************************************************************************)
VERSION_FREE == 65535

MaxVda == 5

MaxSn == 2

MaxFsOps == 4

Vdas == 0..MaxVda

\* The label of a free page, and of a page of a file.
FreeLabel == [version |-> VERSION_FREE, sn |-> 0, file_pgnum |-> 0,
              next_rda |-> 0]

FileLabel(sn, pgnum, next) ==
    [version |-> 1, sn |-> sn, file_pgnum |-> pgnum, next_rda |-> next]

\* A formatted file system: page 0 is the boot page, page 1 the leader
\* page of file 1, every other page is free.
Formatted ==
    [pages |-> [vda \in Vdas |->
                  IF vda = 0 THEN FileLabel(0, 0, 0)
                  ELSE IF vda = 1 THEN FileLabel(1, 0, 0)
                  ELSE FreeLabel],
     bitmap |-> [vda \in Vdas |-> IF vda \in {0, 1} THEN 1 ELSE 0],
     free_pages |-> MaxVda - 1]

\* The pages of a file, and its last page.
FilePages(f, sn) ==
    {vda \in Vdas \ {0} : f.pages[vda].version # VERSION_FREE
                           /\ f.pages[vda].sn = sn}

LastPage(f, sn) ==
    CHOOSE vda \in FilePages(f, sn) :
       \A o \in FilePages(f, sn) :
          f.pages[o].file_pgnum <= f.pages[vda].file_pgnum

\* The free pages, by the bitmap.
UnusedVdas(f) == {vda \in Vdas : f.bitmap[vda] = 0}

\* fs_find_free_page(): the first VDA whose bitmap bit is 0 is marked
\* allocated and free_pages is updated; the label is left to the caller.
fs_find_free_page(f) ==
    IF UnusedVdas(f) = {} THEN [fs |-> f, ret |-> FALSE, free_vda |-> 0]
    ELSE LET vda == CHOOSE v \in UnusedVdas(f) :
                       \A o \in UnusedVdas(f) : v <= o
         IN  [fs |-> [f EXCEPT !.bitmap[vda] = 1,
                               !.free_pages = f.free_pages - 1],
              ret |-> TRUE, free_vda |-> vda]

\* A page is returned to the free list with its label only.
release_page_label_only(f, vda) == [f EXCEPT !.pages[vda] = FreeLabel]

\* A page is returned to the free list: its label becomes that of a free
\* page, its bitmap bit is cleared and free_pages is updated.
release_page(f, vda) ==
    [f EXCEPT !.pages[vda] = FreeLabel, !.bitmap[vda] = 0,
              !.free_pages = f.free_pages + 1]

RECURSIVE release_pages(_, _)
release_pages(f, vdas) ==
    IF vdas = {} THEN f
    ELSE LET vda == CHOOSE v \in vdas : TRUE
         IN  release_pages(release_page(f, vda), vdas \ {vda})

\* fs_write() with extend at the end of a file: one more page is
\* allocated, labelled and linked after the last page.
fs_extend(f, sn) ==
    LET found == fs_find_free_page(f)
        last == LastPage(f, sn)
        new == found.free_vda
    IN  IF ~found.ret THEN [fs |-> f, ret |-> FALSE]
        ELSE [fs |-> [found.fs EXCEPT
                        !.pages[new] =
                            FileLabel(sn, f.pages[last].file_pgnum + 1, 0),
                        !.pages[last].next_rda = new],
              ret |-> TRUE]

RECURSIVE fs_write_extend(_, _, _)
fs_write_extend(f, sn, count) ==
    IF count = 0 THEN [fs |-> f, ret |-> TRUE]
    ELSE LET one == fs_extend(f, sn)
         IN  IF ~one.ret THEN one
             ELSE fs_write_extend(one.fs, sn, count - 1)

\* fs_trim() at a page of a file: the pages after it are released.
fs_trim(f, sn, at) ==
    LET after == {vda \in FilePages(f, sn) :
                     f.pages[vda].file_pgnum > f.pages[at].file_pgnum}
    IN  release_pages([f EXCEPT !.pages[at].next_rda = 0], after)

\* Insertion of a new file: a leader page is allocated and labelled, then
\* the file is written with extend.
fs_insert(f, sn, count) ==
    LET found == fs_find_free_page(f)
    IN  IF ~found.ret THEN [fs |-> f, ret |-> FALSE]
        ELSE fs_write_extend(
                 [found.fs EXCEPT !.pages[found.free_vda] =
                                      FileLabel(sn, 0, 0)], sn, count)

\* Replacement of the contents of a file: the file is trimmed to its
\* leader page and written with extend.
fs_replace(f, sn, count) ==
    LET leader == CHOOSE vda \in FilePages(f, sn) :
                     f.pages[vda].file_pgnum = 0
    IN  fs_write_extend(fs_trim(f, sn, leader), sn, count)

\* Removal of a file: all its pages are released.
fs_remove(f, sn) == release_pages(f, FilePages(f, sn))

\* ps.fs is the file system, ps.held the pages that fs_find_free_page()
\* returned to a caller that has not labelled them yet.
InitFs ==
    /\ sim = simulator_reset(Created(SYS.ALTO_II_3KRAM, 0))
    /\ microcode = EmptyArr
    /\ hist = [op |-> "reset", pre |-> sim, steps |-> 0, writes |-> 0,
               resets |-> 0, reads |-> -1, reads_pre |-> -1]
    /\ env = "fs"
    /\ fx = NoFx
    /\ udp = NoUdp
    /\ ps = [stage |-> "fs", fs |-> Formatted, held |-> {}, ops |-> 0,
             op |-> "format", ret |-> TRUE]

FsOp(f, held, op, ret) ==
    /\ ps' = [ps EXCEPT !.fs = f, !.held = held, !.ops = ps.ops + 1,
                        !.op = op, !.ret = ret]
    /\ UNCHANGED <<sim, microcode, hist, env, fx, udp>>

Files == {sn \in 1..MaxSn : FilePages(ps.fs, sn) # {}}

FsFindFreePage ==
    /\ ps.stage = "fs" /\ ps.ops < MaxFsOps
    /\ LET out == fs_find_free_page(ps.fs)
       IN  FsOp(out.fs,
                IF out.ret THEN ps.held \cup {out.free_vda} ELSE ps.held,
                "find_free_page", out.ret)

\* The caller of fs_find_free_page() writes the label of a page it got.
FsLabelPage ==
    /\ ps.stage = "fs" /\ ps.ops < MaxFsOps
    /\ \E vda \in ps.held, sn \in 1..MaxSn :
          /\ FilePages(ps.fs, sn) = {}
          /\ FsOp([ps.fs EXCEPT !.pages[vda] = FileLabel(sn, 0, 0)],
                  ps.held \ {vda}, "label", TRUE)

FsWriteExtend ==
    /\ ps.stage = "fs" /\ ps.ops < MaxFsOps
    /\ \E sn \in Files, count \in 1..2 :
          LET out == fs_write_extend(ps.fs, sn, count)
          IN  FsOp(out.fs, ps.held, "write", out.ret)

FsTrim ==
    /\ ps.stage = "fs" /\ ps.ops < MaxFsOps
    /\ \E sn \in Files :
          \E at \in FilePages(ps.fs, sn) :
             FsOp(fs_trim(ps.fs, sn, at), ps.held, "trim", TRUE)

FsInsert ==
    /\ ps.stage = "fs" /\ ps.ops < MaxFsOps
    /\ \E sn \in (1..MaxSn) \ Files, count \in 0..2 :
          LET out == fs_insert(ps.fs, sn, count)
          IN  FsOp(out.fs, ps.held, "insert", out.ret)

FsReplace ==
    /\ ps.stage = "fs" /\ ps.ops < MaxFsOps
    /\ \E sn \in Files, count \in 0..2 :
          LET out == fs_replace(ps.fs, sn, count)
          IN  FsOp(out.fs, ps.held, "replace", out.ret)

FsRemove ==
    /\ ps.stage = "fs" /\ ps.ops < MaxFsOps
    /\ \E sn \in Files : FsOp(fs_remove(ps.fs, sn), ps.held, "remove", TRUE)

NextFs ==
    \/ FsFindFreePage \/ FsLabelPage \/ FsWriteExtend \/ FsTrim
    \/ FsInsert \/ FsReplace \/ FsRemove

SpecFs == InitFs /\ [][NextFs]_vars

\* The NOVA style shifts in simulator_step(): microcode that loads L and
\* shifts it.  dns and carry are fields of struct simulator that
\* simulator_reset() clears and no other function of simulator.c writes;
\* the caller that owns the structure sets them between the reset and the
\* first step.
InitNova ==
    /\ \E dns \in BOOLEAN, carry \in BOOLEAN :
          sim = [simulator_reset(Created(SYS.ALTO_II_3KRAM, 0))
                    EXCEPT !.dns = dns, !.carry = carry]
    /\ microcode = EmptyArr
    /\ hist = [op |-> "reset", pre |-> sim, steps |-> 0, writes |-> 0,
               resets |-> 0, reads |-> -1, reads_pre |-> -1]
    /\ env = "nova"
    /\ fx = NoFx
    /\ udp = NoUdp
    /\ ps = NoPs

NextNova == Step

SpecNova == InitNova /\ [][NextNova]_vars

\* The register write-back: microcode that loads L, T and M from
\* constants, writes R and S registers with and without a constant on the
\* bus, raises an error after the ALU, and switches tasks, on both system
\* types.
InitWb == InitCpu("wb")

NextWb == Step \/ Wakeup

SpecWb == InitWb /\ [][NextWb]_vars

(***************************************************************************)
(* A transport under load: the ring already holds packets of the largest   *)
(* size the receive thread stores, and frames of the largest and of the    *)
(* smallest size keep arriving while the CPU thread polls, clears and      *)
(* disables reception.                                                     *)
(***************************************************************************)
MaxStored == 7
MaxCalls == 2

\* The frame of `words` words whose first word is `mark`, as the datagram
\* trp_send() of a peer hands to the network; the other words are 0.
FrameDgram(words, mark) ==
    [len |-> 2 * words + 2,
     bytes |-> [i \in 0..(2 * words + 1) |->
                  IF i = 0 THEN Shr(words, 8)
                  ELSE IF i = 1 THEN words % 256
                  ELSE IF i = 3 THEN mark
                  ELSE 0]]

\* The frames that arrive at a loaded transport.
LoadDatagrams == {FrameDgram(MaxPayload, 201), FrameDgram(1, 202)}

\* The ring after n frames of MaxPayload words, their first words 1 to n
\* and the other bytes those malloc left, were stored from `offset` on.
RECURSIVE StoredFrames(_, _, _)
StoredFrames(utrp, offset, n) ==
    IF n = 0 THEN [utrp EXCEPT !.ring_start = offset, !.ring_end = offset]
    ELSE LET u == StoredFrames(utrp, offset, n - 1)
             at(i) == (u.ring_end + i) % UDP_RING_BUFFER_SIZE
         IN  [u EXCEPT
                !.ring_buf =
                    BufPut2(BufPut2(@, at(0), Shr(MaxPayload, 8),
                                    MaxPayload % 256),
                            at(2), 0, n),
                !.ring_end = u.ring_end + UDP_PACKET_SIZE]

\* The places of the ring where the first stored frame starts: such that
\* the frame the receive thread stores next ends at the end of the ring or
\* lies across it, and such that the first or the second frame
\* trp_receive() takes does.
LoadOffsets ==
    {0, 4, UDP_RING_BUFFER_SIZE - UDP_PACKET_SIZE,
     UDP_RING_BUFFER_SIZE - UDP_PACKET_SIZE - 4}

InitFull ==
    /\ sim = simulator_reset(Created(SYS.ALTO_II_3KRAM, 0))
    /\ microcode = EmptyArr
    /\ hist = [op |-> "reset", pre |-> sim, steps |-> 0, writes |-> 0,
               resets |-> 0, reads |-> -1, reads_pre |-> -1]
    /\ env = "full"
    /\ fx = NoFx
    /\ ps = [stage |-> "full", calls |-> 0]
    /\ \E heap \in {165}, offset \in LoadOffsets, n \in {MaxStored} :
          udp = [plan |-> [len |-> 0, pattern |-> 1], phase |-> "fresh",
                 appended |-> 0,
                 peer |-> udp_transport_create(heap),
                 sock |-> <<>>, delivered |-> 0,
                 utrp |-> StoredFrames(udp_transport_create(heap),
                                       offset, n),
                 mutex |-> "free",
                 rt |-> RtAt("lock1"),
                 cpu |-> [pc |-> "idle", op |-> "none", enable |-> TRUE,
                          len |-> 0, pos |-> 0, plen |-> -1, ret |-> TRUE,
                          got |-> <<>>, quiet |-> FALSE],
                 acc |-> [thread |-> "none", held |-> TRUE],
                 res |-> [sockfd |-> "open", bufs |-> "live"]]

\* A frame of a peer arrives at the socket.
DeliverFrame ==
    /\ udp.mutex # "none" /\ udp.delivered < MaxDatagrams
    /\ \E d \in LoadDatagrams :
          udp' = [udp EXCEPT !.sock = Append(@, d),
                             !.delivered = @ + 1]
    /\ UNCHANGED cpuVars

\* The CPU thread calls trp_enable_rx() or trp_receive(); ps.calls counts
\* the calls.
CpuCall(Call) ==
    /\ ps.stage = "full"
    /\ ps.calls < MaxCalls
    /\ Call
    /\ ps' = [ps EXCEPT !.calls = @ + 1]
    /\ UNCHANGED <<sim, microcode, hist, env, fx>>

EnableRxFull == CpuCall(EnableRxCall)

ReceiveFull == CpuCall(ReceiveEnter)

NextFull ==
    \/ DeliverFrame
    \/ ThreadNext
    \/ EnableRxFull \/ EnableRxBody \/ EnableRxUnlock
    \/ ReceiveFull \/ ReceiveBody1 \/ ReceiveBody2 \/ ReceiveUnlock
    \/ ClearRx

SpecFull == InitFull /\ [][NextFull]_vars

(***************************************************************************)
(* main() of the archiver tool adar: the operations it performs on the     *)
(* disk image, one after the other.  The functions of the file system and  *)
(* the printing functions are inputs of main(): each call returns TRUE or  *)
(* FALSE.                                                                  *)
(***************************************************************************)

\* The calls of main() in the order of its text, after the arguments.
AdarStages ==
    <<"fs_create", "fs_load_image", "fs_check_integrity",
      "extract_find", "fs_extract_file", "print_files",
      "dir_find", "is_directory", "print_directory",
      "fs_find_file", "fs_replace_file", "fs_save_image">>

\* The `if` around each call: what the command line asked for.
adar_requested(opts, stage) ==
    CASE stage \in {"extract_find", "fs_extract_file"} -> opts.extract
      [] stage = "print_files" -> opts.list
      [] stage \in {"dir_find", "is_directory", "print_directory"} -> opts.dir
      [] stage \in {"fs_find_file", "fs_replace_file", "fs_save_image"} ->
            opts.replace
      [] OTHER -> TRUE

\* Where main() continues after the call at position `at` succeeded.
adar_next(opts, at) ==
    LET later == {j \in (at + 1)..Len(AdarStages) :
                     adar_requested(opts, AdarStages[j])}
    IN  IF later = {} THEN 0
        ELSE CHOOSE j \in later : \A k \in later : j <= k

\* The name of the function a stage calls: -s selects fs_scavenge_file
\* for the file to extract and the directory to list.
adar_function(opts, stage) ==
    IF stage \in {"extract_find", "dir_find"}
    THEN IF opts.scavenge THEN "fs_scavenge_file" ELSE "fs_find_file"
    ELSE stage

\* A call that does not test the result of the function.
adar_call_unchecked(p, at, ok) ==
    LET done == Append(p.log, [stage |-> AdarStages[at],
                               name |-> adar_function(p.opts, AdarStages[at]),
                               ok |-> ok])
        next == adar_next(p.opts, at)
    IN  IF next = 0
        THEN [p EXCEPT !.log = done, !.pc = "exit", !.status = 0,
                       !.destroyed = TRUE]
        ELSE [p EXCEPT !.log = done, !.pc = AdarStages[next]]

\* One call of main(): on FALSE the error exit (fs_destroy, return 1),
\* on TRUE the next requested call, or fs_destroy and return 0.
adar_call(p, at, ok) ==
    IF ~ok
    THEN [p EXCEPT !.log = Append(p.log,
                              [stage |-> AdarStages[at],
                               name |-> adar_function(p.opts, AdarStages[at]),
                               ok |-> FALSE]),
                   !.pc = "exit", !.status = 1, !.destroyed = TRUE]
    ELSE adar_call_unchecked(p, at, ok)

InitAdar ==
    /\ sim = simulator_reset(Created(SYS.ALTO_II_3KRAM, 0))
    /\ microcode = EmptyArr
    /\ hist = [op |-> "reset", pre |-> sim, steps |-> 0, writes |-> 0,
               resets |-> 0, reads |-> -1, reads_pre |-> -1]
    /\ env = "adar"
    /\ fx = NoFx
    /\ udp = NoUdp
    /\ \E extract \in BOOLEAN, list \in BOOLEAN, dir \in BOOLEAN,
          replace \in BOOLEAN, scavenge \in BOOLEAN :
          ps = [stage |-> "adar", pc |-> "fs_create",
                opts |-> [extract |-> extract, list |-> list, dir |-> dir,
                          replace |-> replace, scavenge |-> scavenge],
                fe |-> [directory |-> FALSE],
                log |-> <<>>, status |-> -1, destroyed |-> FALSE]

\* A call of main() at position `at` of AdarStages with result `ok`.
AdarCall(at, ok) ==
    /\ ps.stage = "adar"
    /\ ps.pc = AdarStages[at]
    /\ ps' = adar_call(ps, at, ok)
    /\ UNCHANGED <<sim, microcode, hist, env, fx, udp>>

\* fs_find_file() or fs_scavenge_file() fills the file entry.
AdarFind(at, ok) ==
    /\ ps.stage = "adar"
    /\ ps.pc = AdarStages[at]
    /\ \E directory \in BOOLEAN :
          ps' = [adar_call(ps, at, ok)
                    EXCEPT !.fe = IF ok THEN [directory |-> directory]
                                  ELSE ps.fe]
    /\ UNCHANGED <<sim, microcode, hist, env, fx, udp>>

AdarCreate == \E ok \in BOOLEAN : AdarCall(1, ok)

AdarLoadImage == \E ok \in BOOLEAN : AdarCall(2, ok)

AdarCheckIntegrity == \E ok \in BOOLEAN : AdarCall(3, ok)

AdarExtractFind == \E ok \in BOOLEAN : AdarFind(4, ok)

AdarExtractFile == \E ok \in BOOLEAN : AdarCall(5, ok)

AdarPrintFiles == \E ok \in BOOLEAN : AdarCall(6, ok)

AdarDirFind == \E ok \in BOOLEAN : AdarFind(7, ok)

\* The test of SN_DIRECTORY in the entry that was found.
AdarIsDirectory == AdarCall(8, ps.fe.directory)

AdarPrintDirectory == \E ok \in BOOLEAN : AdarCall(9, ok)

AdarReplaceFind == \E ok \in BOOLEAN : AdarFind(10, ok)

AdarReplaceFile == \E ok \in BOOLEAN : AdarCall(11, ok)

AdarSaveImage == \E ok \in BOOLEAN : AdarCall(12, ok)

NextAdar ==
    \/ AdarCreate \/ AdarLoadImage \/ AdarCheckIntegrity
    \/ AdarExtractFind \/ AdarExtractFile \/ AdarPrintFiles
    \/ AdarDirFind \/ AdarIsDirectory \/ AdarPrintDirectory
    \/ AdarReplaceFind \/ AdarReplaceFile \/ AdarSaveImage

SpecAdar == InitAdar /\ [][NextAdar]_vars

\* The CPU thread polls trp_receive() and calls trp_get_rx_data() whether
\* or not the packet has data left; ps.data is the word of the last call.
InitRx ==
    /\ sim = simulator_reset(Created(SYS.ALTO_II_3KRAM, 0))
    /\ microcode = EmptyArr
    /\ hist = [op |-> "reset", pre |-> sim, steps |-> 0, writes |-> 0,
               resets |-> 0, reads |-> -1, reads_pre |-> -1]
    /\ env = "rx"
    /\ fx = NoFx
    /\ ps = [stage |-> "rx", data |-> 0]
    /\ \E heap \in HeapBytes, offset \in RingOffsets :
          udp = [plan |-> [len |-> 0, pattern |-> 1], phase |-> "fresh",
                 appended |-> 0,
                 peer |-> udp_transport_create(heap),
                 sock |-> <<>>, delivered |-> 0,
                 utrp |-> [udp_transport_create(heap) EXCEPT
                             !.ring_start = offset, !.ring_end = offset],
                 mutex |-> "free",
                 rt |-> RtAt("lock1"),
                 cpu |-> [pc |-> "idle", op |-> "none", enable |-> TRUE,
                          len |-> 0, pos |-> 0, plen |-> -1, ret |-> TRUE,
                          got |-> <<>>, quiet |-> FALSE],
                 acc |-> [thread |-> "none", held |-> TRUE],
                 res |-> [sockfd |-> "open", bufs |-> "live"]]

\* A call of trp_get_rx_data()
GetRxDataCall ==
    /\ ps.stage = "rx"
    /\ udp.mutex # "none" /\ udp.cpu.pc = "idle"
    /\ LET r == trp_get_rx_data(udp.utrp)
       IN  /\ udp' = [udp EXCEPT !.utrp = r.utrp, !.cpu.op = "get_rx_data"]
           /\ ps' = [ps EXCEPT !.data = r.data]
    /\ UNCHANGED <<sim, microcode, hist, env, fx>>

NextRx ==
    \/ Deliver
    \/ ThreadNext
    \/ ReceiveCall \/ ReceiveBody1 \/ ReceiveBody2 \/ ReceiveUnlock
    \/ GetRxDataCall \/ ClearRx

SpecRx == InitRx /\ [][NextRx]_vars

\* A peer that sends one frame of as many words as trp_append_tx() takes,
\* and of one word less, to a transport that receives.
LongPlans ==
    {[len |-> n, pattern |-> 1] : n \in MaxPayload..(MaxPayload + 2)}

InitTx == InitUdp("tx", LongPlans, {0})

NextTx ==
    \/ ClearTx \/ AppendTx \/ Send
    \/ ThreadNext
    \/ ReceiveCall \/ ReceiveBody1 \/ ReceiveBody2 \/ ReceiveUnlock

SpecTx == InitTx /\ [][NextTx]_vars

(***************************************************************************)
(* What the last operation was, for the properties below.                  *)
(***************************************************************************)
\* The last operation was a call of simulator_step() on a running CPU.
Stepped == hist.op = "step" /\ ~hist.pre.error

\* The values that call computed.
Core == step_core(hist.pre)

\* The last call of simulator_step() got as far as do_f1 (the bus source
\* and ALUF were valid) with the F1 function f1.
ExecutedF1(f1) ==
    /\ Stepped
    /\ Core.mc.f1 = f1
    /\ Core.stage \in {"do_f1", "done"}

PendingTasks(s) == {task \in 0..(TASK_NUM_TASKS - 1) : Bit(s.pending, task) = 1}

(***************************************************************************)
(* C1 (as stated).  A step whose F1 is BLOCK in the emulator task sets     *)
(* the error flag and changes nothing else of the simulator state,         *)
(* whatever the other fields of the microinstruction are.                  *)
(***************************************************************************)
C1_BlockOnlySetsError ==
    (Stepped /\ Core.mc.f1 = F1.BLOCK /\ Core.mc.task = TASK.EMULATOR)
        => sim = [hist.pre EXCEPT !.error = TRUE]

(***************************************************************************)
(* C1 (amended).  A step whose F1 is BLOCK in the emulator task sets the   *)
(* error flag and changes nothing else, except that mem_which is toggled   *)
(* when the bus is read from MD (BS=READ_MD, no constant access).          *)
(***************************************************************************)
C1_BlockSetsErrorAndReadsBus ==
    (Stepped /\ Core.mc.f1 = F1.BLOCK /\ Core.mc.task = TASK.EMULATOR)
        => sim = [hist.pre EXCEPT
                    !.error = TRUE,
                    !.mem_which =
                        IF Core.mc.bs = BS.READ_MD /\ ~Core.mc.use_constant
                        THEN 1 - @ ELSE @]

C1_Witness ==
    /\ Stepped /\ Core.mc.f1 = F1.BLOCK /\ Core.mc.task = TASK.EMULATOR
    /\ Core.stage = "do_f1"
    /\ sim.error
    /\ sim.mem_which # hist.pre.mem_which

(***************************************************************************)
(* C2.  The error state is sticky: a call of simulator_step() on a         *)
(* simulator in error state changes nothing, and only simulator_reset()    *)
(* clears the error flag.                                                  *)
(***************************************************************************)
C2_ErrorSticky ==
    /\ (hist.op = "step" /\ hist.pre.error) => sim = hist.pre
    /\ (hist.pre.error /\ ~sim.error) => hist.op = "reset"
    /\ (hist.op = "reset") => ~sim.error

C2_Witness ==
    /\ hist.op = "step" /\ hist.pre.error /\ sim.error
    /\ hist.pre.cycle > 0

(***************************************************************************)
(* C3.  After a step that executes F1=TASK, ntask is the highest numbered  *)
(* task whose pending bit is set, and ctask, the task of the next cycle,   *)
(* is that task.                                                           *)
(***************************************************************************)
C3_TaskSelectsHighestPending ==
    ExecutedF1(F1.TASK) =>
        /\ sim.ntask \in PendingTasks(sim)
        /\ \A task \in PendingTasks(sim) : task <= sim.ntask
        /\ sim.ctask = sim.ntask

C3_Witness ==
    /\ ExecutedF1(F1.TASK)
    /\ {TASK.DISK_SECTOR, TASK.ETHERNET} \subseteq PendingTasks(sim)
    /\ sim.ntask = TASK.ETHERNET
    /\ sim.ctask = TASK.ETHERNET

(***************************************************************************)
(* C4.  The pending bit of the emulator task is set in every reachable     *)
(* state.                                                                  *)
(***************************************************************************)
C4_EmulatorAlwaysPending == TASK.EMULATOR \in PendingTasks(sim)

C4_Witness ==
    /\ ExecutedF1(F1.BLOCK)
    /\ Core.mc.task = TASK.DISK_SECTOR
    /\ TASK.DISK_SECTOR \in PendingTasks(hist.pre)
    /\ TASK.DISK_SECTOR \notin PendingTasks(sim)
    /\ TASK.EMULATOR \in PendingTasks(sim)

\* The paired address of a double word access, by system type.
PairOf(s, a) == IF s.sys_type = SYS.ALTO_I THEN BitOr(a, 1) ELSE BitXor(a, 1)

\* What a step that executes F1=LOAD_MAR leaves in MAR and in the memory
\* data words; `which` is the value of mem_which it leaves.
LoadMarResult(which) ==
    LET task == Core.mc.task
        ext == hist.pre.sys_type # SYS.ALTO_I /\ Core.mc.f2 = F2.STORE_MD
    IN  /\ sim.mar = Core.alu
        /\ sim.mem_low = simulator_read(hist.pre, Core.alu, task, ext)
        /\ sim.mem_high =
              simulator_read(hist.pre, PairOf(hist.pre, Core.alu), task, ext)
        /\ sim.mem_which = which

\* Reads of the memory data register after F1=LOAD_MAR alternate between
\* mem_low and mem_high, starting with mem_low.
ReadMdAlternates ==
    (Stepped /\ md_read(Core) /\ hist.reads_pre >= 0) =>
        Core.bus = IF hist.reads_pre % 2 = 0
                   THEN hist.pre.mem_low ELSE hist.pre.mem_high

ExpectedCarry(f, a, b, skip) ==
    CASE f = ALU.BUS_PLUS_1 -> a + 1 >= W16
      [] f = ALU.BUS_MINUS_1 -> a >= 1
      [] f = ALU.BUS_PLUS_T -> a + b >= W16
      [] f = ALU.BUS_MINUS_T -> a >= b
      [] f = ALU.BUS_MINUS_T_MINUS_1 -> a > b
      [] f = ALU.BUS_PLUS_T_PLUS_1 -> a + b + 1 >= W16
      [] f = ALU.BUS_PLUS_SKIP -> a + (IF skip THEN 1 ELSE 0) >= W16

(***************************************************************************)
(* C6.  For all bus and T: (BUS+T)-T = BUS modulo 2^16, (BUS AND T) OR     *)
(* (BUS AND NOT T) = BUS, (BUS XOR T) XOR T = BUS, and the carry of every  *)
(* arithmetic function is bit 16 of its 17-bit sum.                        *)
(***************************************************************************)
C6_AluRoundTrips ==
    fx.stage = "alu" =>
        /\ fx.out.minus_back.alu = fx.bus
        /\ fx.out.or_back.alu = fx.bus
        /\ fx.out.xor_back.alu = fx.bus
        /\ \A f \in ArithmeticAluf :
              fx.out.carry[f] = ExpectedCarry(f, fx.bus, fx.t, fx.skip)

C6_Witness ==
    /\ fx.stage = "alu"
    /\ fx.bus = 65535 /\ fx.t = 2
    /\ fx.out.plus.alu = 1 /\ fx.out.plus.carry
    /\ fx.out.minus_back.alu = 65535 /\ ~fx.out.minus_back.carry

(***************************************************************************)
(* C7 (as stated).  With dns clear and F2 not MAGIC, LLSH1 of LRSH1 of L   *)
(* is L AND 0x7FFE.                                                        *)
(***************************************************************************)
C7_ShiftRoundTrip7FFE ==
    (fx.stage = "shift" /\ ~fx.dns /\ ~fx.magic) =>
        fx.out.left_back.res = BitAnd(fx.bus, 32766)

(***************************************************************************)
(* C7 (amended).  With dns clear and F2 not MAGIC, LLSH1 of LRSH1 of L is  *)
(* L AND 0xFFFE: only bit 0 is lost.                                       *)
(***************************************************************************)
C7_ShiftRoundTripFFFE ==
    (fx.stage = "shift" /\ ~fx.dns /\ ~fx.magic) =>
        fx.out.left_back.res = BitAnd(fx.bus, 65534)

C7_Witness ==
    /\ fx.stage = "shift" /\ ~fx.dns /\ ~fx.magic
    /\ fx.bus = 32769
    /\ fx.out.right.res = 16384
    /\ fx.out.left_back.res = 32768

\* The word sequence W of the plan came through: a call of trp_receive()
\* made when nothing was on its way any more has reported the length of
\* the frame of W, and the words trp_get_rx_data() has returned since are
\* the words of W, in order.
FrameDelivered ==
    /\ (udp.cpu.pc = "idle" /\ udp.cpu.op = "receive" /\ udp.cpu.quiet) =>
          /\ udp.cpu.ret
          /\ udp.cpu.plen # 0
          /\ udp.cpu.plen = 2 * udp.plan.len + 4
    /\ \A i \in 1..Len(udp.cpu.got) :
          i <= udp.plan.len =>
              udp.cpu.got[i] = PlanWord(udp.plan.pattern, i)

(***************************************************************************)
(* C8 (as stated).  For every W of at most 510 words, clear_tx, append_tx  *)
(* of each word and send, followed on the peer by receive and repeated     *)
(* get_rx_data, yields W: receive reports a non-zero length and the first  *)
(* |W| words returned are W.                                               *)
(***************************************************************************)
C8_FramingRoundTrip == udp.plan.len <= MaxPayload => FrameDelivered

(***************************************************************************)
(* C8 (amended).  The same for every W of at least 1 and at most 510       *)
(* words; receive then reports 2 * |W| + 4 bytes.                          *)
(***************************************************************************)
C8_FramingRoundTripNonEmpty ==
    (1 <= udp.plan.len /\ udp.plan.len <= MaxPayload) => FrameDelivered

C8_Witness ==
    /\ udp.plan.len = MaxPayload
    /\ udp.phase = "sent" /\ udp.cpu.quiet
    /\ udp.cpu.plen = UDP_PACKET_SIZE
    /\ Len(udp.cpu.got) = MaxPayload
    /\ udp.cpu.got[MaxPayload] = PlanWord(udp.plan.pattern, MaxPayload)
    /\ udp.utrp.ring_start = UDP_PACKET_SIZE - 4

\* The bytes from pos to ring_end are whole packets.
RECURSIVE WholePackets(_, _)
WholePackets(utrp, pos) ==
    IF pos >= utrp.ring_end THEN pos = utrp.ring_end
    ELSE WholePackets(utrp,
            pos + 2 * (be16(utrp.ring_buf, pos % UDP_RING_BUFFER_SIZE,
                            utrp.heap) + 2))

RingConsistent ==
    /\ 0 <= udp.utrp.ring_start
    /\ udp.utrp.ring_start < UDP_RING_BUFFER_SIZE
    /\ udp.utrp.ring_start <= udp.utrp.ring_end
    /\ udp.utrp.ring_end - udp.utrp.ring_start <= UDP_RING_BUFFER_SIZE
    /\ WholePackets(udp.utrp, udp.utrp.ring_start)

(***************************************************************************)
(* C9.  Every access of trp_enable_rx(), trp_receive() and the receive     *)
(* thread to ring_start, ring_end, ring_buf, rx_enable and running is made *)
(* by the owner of the mutex, and whenever the mutex is free the ring      *)
(* holds whole packets only.                                               *)
(***************************************************************************)
C9_RingAccessUnderMutex ==
    /\ udp.acc.held
    /\ udp.mutex = "free" => RingConsistent

C9_Witness ==
    /\ udp.mutex = "rx" /\ udp.rt.pc = "store2" /\ udp.rt.pos > 0
    /\ udp.acc = [thread |-> "rx", held |-> TRUE]
    /\ ~RingConsistent
    /\ udp.cpu.pc = "idle" /\ udp.cpu.op = "receive" /\ udp.cpu.plen = 0

(***************************************************************************)
(* C10 (as stated).  A protocol error on reception, a datagram whose       *)
(* declared word count does not fit the received size or a ring overflow,  *)
(* drops that packet only: the receive thread does not end because of it.  *)
(***************************************************************************)
C10_ProtocolErrorDropsPacketOnly ==
    ~(/\ udp.mutex # "none"
      /\ udp.rt.pc = "returned"
      /\ udp.rt.why \in {"invalid packet length", "not enough space"})


\* The block of a pointer field was handed back exactly once and the field
\* no longer points to it.
FreedOnce(b) == b.frees = b.blocks /\ b.ptr = "NULL"

\* C11: when main has returned, on the path of a successful create followed
\* by destroy and on every path of a failed construction, each of the eight
\* buffers of simulator_create was freed exactly once and its pointer is
\* NULL: none is leaked and none is freed twice.
C11_SimulatorBuffersFreedOnce ==
    (ps.stage = "exit" /\ (ps.created = "yes" \/ ps.at # "gui_create"))
        => \A n \in SimBuffers : FreedOnce(ps.heap[n])

\* C12: when psim_create has failed, at whatever stage, the breakpoint
\* table, the command and output buffers and the simulator buffers built so
\* far have been released and main has returned 1.
C12_FailedCreateReleasesAll ==
    (ps.stage \in {"exit", "aborted"} /\ ps.created # "yes")
        => /\ \A n \in Buffers : ps.heap[n].frees >= ps.heap[n].blocks
           /\ ps.stage = "exit"
           /\ ps.status = 1

\* C13: under fair scheduling, once udp_transport_destroy has cleared
\* running and waits in SDL_WaitThread, the receive thread returns and the
\* join comes back, wherever the thread was at that time.
C13_JoinAlwaysReturns ==
    (udp.cpu.pc = "d_join") ~> (udp.rt.pc = "returned"
                                /\ udp.cpu.pc = "destroyed")

\* C14: once gui_running() is false, the next thing psim does is to leave
\* the loop it is in: psim_simulate returns to the debugger without
\* another simulator_step, and the debugger loop returns without reading
\* another command.
C14_StopObservedAtStepBoundary ==
    [][(ps.stage = "debug" /\ ~ps.running /\ ps' # ps)
          => /\ hist'.steps = hist.steps
             /\ ps'.cmds = ps.cmds
             /\ ps'.pc = IF ps.pc = "simulate" THEN "head"
                         ELSE "returned"]_vars

\* A continue command with no breakpoint to stop it and steps left to run
\* has come back to the debugger, the GUI being stopped.
C14_Witness ==
    /\ ps.stage = "debug" /\ ps.pc = "head" /\ ~ps.running
    /\ ps.last.cmd = "c"
    /\ effective_breakpoints(ps.bps) = 0
    /\ hist.steps \in 1..(MaxSteps - 1)

\* The breakpoint matches the state the step ended in, a task switch
\* being a step that ends in another task than it started in.
BreakpointMatches(bp) ==
    /\ bp.task = 255 \/ bp.task = sim'.ctask
    /\ bp.ntask = 255 \/ bp.ntask = sim'.ntask
    /\ bp.mpc = 65535 \/ bp.mpc = sim'.mpc
    /\ ~bp.on_task_switch \/ sim'.ctask # sim.ctask
    /\ \/ bp.mir_mask = Word32(0)
       \/ /\ BitAnd(MirWord(sim'.mir).hi, bp.mir_mask.hi) = bp.mir_fmt.hi
          /\ BitAnd(MirWord(sim'.mir).lo, bp.mir_mask.lo) = bp.mir_fmt.lo

\* C15: psim_simulate stops right after a step exactly when some created
\* and enabled breakpoint matches the state the step ended in; disabled
\* and never created slots do not stop it.
C15_StopsAtMatchingBreakpoint ==
    [][(ps.stage = "debug" /\ hist'.steps = hist.steps + 1)
          => ((ps'.pc = "head")
                <=> \E num \in DOMAIN ps.bps :
                       /\ ~ps.bps[num].available
                       /\ ps.bps[num].enable
                       /\ BreakpointMatches(ps.bps[num]))]_vars

CreatedSlots(bps) ==
    {num \in 1..(MaxBreakpoints - 1) : ~bps[num].available}

AvailableSlots(bps) ==
    {num \in 1..(MaxBreakpoints - 1) : bps[num].available}

\* C16: a command line that asks for a valid breakpoint while a slot is
\* available creates it in the lowest available slot; every other command
\* line, a failed bp among them, leaves the set of created breakpoints as
\* it was; slot 0 is never available, and bp, be and bd leave it alone.
C16_LowestSlotAndSlotZeroReserved ==
    [][(ps.stage = "debug" /\ ps'.cmds = ps.cmds + 1)
          => /\ ~ps'.bps[0].available
             /\ ps'.last.cmd \in {"bp", "be", "bd"}
                    => ps'.bps[0] = ps.bps[0]
             /\ IF /\ ps'.last.cmd = "bp" /\ ps'.last.expect = "ok"
                   /\ AvailableSlots(ps.bps) # {}
                THEN CreatedSlots(ps'.bps) = CreatedSlots(ps.bps) \cup
                        {CHOOSE num \in AvailableSlots(ps.bps) :
                            \A other \in AvailableSlots(ps.bps) :
                                num <= other}
                ELSE CreatedSlots(ps'.bps) = CreatedSlots(ps.bps)]_vars

\* The last slot of the table has just been given to a breakpoint.
C16_Witness ==
    /\ ps.stage = "debug"
    /\ ps.last.cmd = "bp" /\ ps.last.expect = "ok"
    /\ CreatedSlots(ps.bps) = 1..(MaxBreakpoints - 1)
    /\ \A num \in CreatedSlots(ps.bps) : ps.bps[num].enable

\* A ROM image of the right size: the name is that of a file that opens
\* and holds exactly size bytes.
ExactImage(filename, size) ==
    /\ filename.name = "file"
    /\ filename.opens
    /\ filename.len = size

\* The addresses of a bank of the microcode store.
BankWords(bank) ==
    {bank * MICROCODE_SIZE + i : i \in 0..(MICROCODE_SIZE - 1)}

\* The words of a store outside a bank are what they were.
OnlyBankWritten(before, after, bank) ==
    /\ DOMAIN after \ BankWords(bank) = DOMAIN before \ BankWords(bank)
    /\ \A a \in DOMAIN before \ BankWords(bank) : after[a] = before[a]

\* The load that a step made, if it made one.
LoadedBy(fn) == ps.stage = "rom" /\ ps'.loads = ps.loads + 1 /\ ps'.fn = fn

SFileIndex(c) == sim.sr_banks[c.mc.task] * NUM_R_REGISTERS + c.mc.rsel

\* C18: in every state reachable from reset, ctask and ntask are below 16
\* and every task_mpc entry is below 4 * 1024, so the indices the next step
\* uses into task_mpc, the microcode store, the R file (modified RSEL) and
\* the S file (bank * 32 + RSEL) are within the arrays.
C18_IndicesInRange ==
    env = "idx" =>
      LET c == step_core(sim)
      IN  /\ sim.ctask \in 0..(TASK_NUM_TASKS - 1)
          /\ sim.ntask \in 0..(TASK_NUM_TASKS - 1)
          /\ \A task \in 0..(TASK_NUM_TASKS - 1) :
                sim.task_mpc[task] \in
                    0..(NUM_MICROCODE_BANKS * MICROCODE_SIZE - 1)
          /\ c.mc.task = sim.ctask
          /\ c.modified_rsel \in 0..(NUM_R_REGISTERS - 1)
          /\ c.mc.rsel \in 0..(NUM_R_REGISTERS - 1)
          /\ SFileIndex(c) \in 0..(NUM_S_REGISTERS - 1)
          /\ DOMAIN sim.s \subseteq 0..(NUM_S_REGISTERS - 1)
          /\ DOMAIN microcode
                \subseteq 0..(NUM_MICROCODE_BANKS * MICROCODE_SIZE - 1)

\* The last S register of the last bank has been written.
C18_Witness ==
    /\ env = "idx"
    /\ (NUM_S_REGISTERS - 1) \in DOMAIN sim.s
    /\ sim.sr_banks[TASK.EMULATOR] = 7

\* No memory cycle is in progress: no F1=LOAD_MAR was executed since
\* simulator_reset(), or more than 10 steps were completed after the most
\* recent one.
NoMemoryCycle == ps.since = -1 \/ ps.since > 10

\* C19: mem_cycle equals the idle value 0xFFFF in every state in which no
\* memory cycle is in progress: directly after simulator_reset and before
\* any LOAD_MAR has executed, and more than 10 cycles after the most recent
\* LOAD_MAR.
C19_MemCycleIdleWithoutCycle ==
    (ps.stage = "cyc" /\ NoMemoryCycle) => sim.mem_cycle = 65535

\* The last operation was the first simulator_step() after
\* simulator_reset(), with the word 0 at address 0 of the microcode store.
FirstStepOfZeroWord ==
    /\ ps.stage = "cyc"
    /\ hist.op = "step"
    /\ hist.pre = simulator_reset(hist.pre)
    /\ 0 \in DOMAIN microcode
    /\ microcode[0] = MirZero

\* The registers, flags, bank registers and program counters of the tasks.
C20_Registers ==
    {"r", "s", "t", "l", "m", "mar", "ir", "aluC0", "skip", "carry", "dns",
     "xm_banks", "sr_banks", "task_mpc"}

\* C20: after simulator_reset, one simulator_step with microcode[0] = 0
\* ends with cycle = 1, ctask = 0, mpc = 0, mir = 0, pending =
\* 1 << TASK_EMULATOR, no error, and R, S, T, L, M, MAR, IR, the flags
\* aluC0, skip, carry and dns, the bank registers and task_mpc equal to
\* their reset values.
C20_ZeroWordStepKeepsResetState ==
    FirstStepOfZeroWord =>
        /\ sim.cycle = 1
        /\ sim.ctask = 0
        /\ sim.mpc = 0
        /\ sim.mir = MirZero
        /\ MirWord(sim.mir) = Word32(0)
        /\ sim.pending = 2^TASK.EMULATOR
        /\ ~sim.error
        /\ \A f \in C20_Registers : sim[f] = simulator_reset(sim)[f]

\* The step was made after a reset that followed other steps, and the
\* task_mpc entry of the emulator task is at its reset value again.
C20_Witness ==
    /\ FirstStepOfZeroWord
    /\ hist.resets = 1
    /\ hist.steps > 1
    /\ sim.cycle = 1
    /\ sim.task_mpc[TASK.EMULATOR] = 0

\* The bitmap bit of a page says whether its label is that of a used page.
BitMatchesLabel(vda) ==
    (ps.fs.bitmap[vda] = 1) <=> (ps.fs.pages[vda].version # VERSION_FREE)

\* free_pages is the number of pages whose bitmap bit is 0.
FreePagesCounted == ps.fs.free_pages = Cardinality(UnusedVdas(ps.fs))

CountedFrom(mem_cycle) ==
    IF mem_cycle \in 1..9 THEN mem_cycle + 1 ELSE 65535

\* C22: the step that executes F1=LOAD_MAR ends with mem_cycle = 1; each
\* following step without LOAD_MAR increases mem_cycle by exactly one until
\* it is 10; the next step sets it to 0xFFFF, where it stays until the next
\* LOAD_MAR; a new LOAD_MAR at any point restarts the count at 1.
C22_MemCycleTiming ==
    (ps.stage = "cyc" /\ hist.op = "step") =>
        IF mar_loaded(Core) THEN sim.mem_cycle = 1
        ELSE ps.since >= 0 =>
                sim.mem_cycle = CountedFrom(hist.pre.mem_cycle)

\* C22 (amended): the step that executes F1=LOAD_MAR ends with
\* mem_cycle = 1; each following step without LOAD_MAR that completes
\* increases mem_cycle by one until it is 10, the next one sets it to
\* 0xFFFF, where it stays until the next LOAD_MAR; a call of
\* simulator_step that ends in a CPU error, or is made in the error state,
\* leaves mem_cycle as it was.
C22_MemCycleTimingOfCompletedSteps ==
    (ps.stage = "cyc" /\ hist.op = "step") =>
        IF mar_loaded(Core) THEN sim.mem_cycle = 1
        ELSE IF Core.stage # "done"
        THEN sim.mem_cycle = hist.pre.mem_cycle
        ELSE ps.since >= 0 =>
                sim.mem_cycle = CountedFrom(hist.pre.mem_cycle)

\* The counter went idle with the tenth step after a LOAD_MAR.
C22_Witness ==
    /\ ps.stage = "cyc" /\ hist.op = "step"
    /\ ps.since = 10
    /\ hist.pre.mem_cycle = 10
    /\ sim.mem_cycle = 65535

\* The value the selected bus source contributes in the last step.
BusSourceValue ==
    LET pre == hist.pre
        mc == Core.mc
    IN  IF mc.bs = BS.NONE
        THEN IF mc.task = TASK.EMULATOR /\ mc.f1 = F1.EMU_RSNF
             THEN BitAnd(pre.ether_address, 65280) ELSE 65535
        ELSE IF mc.bs = BS.READ_MD
        THEN IF pre.mem_which # 0 THEN pre.mem_high ELSE pre.mem_low
        ELSE IF mc.bs = BS.READ_MOUSE
        THEN BitAnd(65520, mouse_poll_bits(pre))
        ELSE read_disp(pre.ir)

\* C23: in a step where bs_use_crom is set, use_constant is not, and BS is
\* one of NONE, READ_MD, READ_MOUSE and READ_DISP, the bus value is the
\* constant ROM word at const_addr ANDed with the value of the source.
C23_WiredAndBus ==
    (/\ Stepped
     /\ Core.mc.bs_use_crom
     /\ ~Core.mc.use_constant
     /\ Core.mc.bs \in {BS.NONE, BS.READ_MD, BS.READ_MOUSE, BS.READ_DISP})
    => Core.bus = BitAnd(hist.pre.consts[Core.mc.const_addr], BusSourceValue)

\* The state in which do_f2 of the last step started: after the bus was
\* read and F1 was executed.
BeforeF2 ==
    do_f1(read_bus(hist.pre, Core.mc, Core.modified_rsel).sim, Core.mc,
          Core.bus, Core.alu, Core.shifter_output)

\* The last step got as far as F2=STORE_MD.
ExecutedStoreMd ==
    /\ Stepped
    /\ Core.stage = "done"
    /\ Core.mc.f2 = F2.STORE_MD

\* The address is that of one of the bank registers.
BankRegister(a) ==
    a \in XM_BANK_START..(XM_BANK_START + NUM_BANK_SLOTS - 1)

\* Memory and the bank registers after the word v was written at address a
\* for the task that loaded MAR, and nothing else.
StoredAt(s, a, v) ==
    IF BankRegister(a)
    THEN /\ sim.xm_banks = [s.xm_banks EXCEPT ![a - XM_BANK_START] = v]
         /\ sim.mem = s.mem
    ELSE /\ sim.mem = ArrPut(s.mem,
                             <<bank_number(s, s.mem_task, s.mem_extended),
                               a>>, v)
         /\ sim.xm_banks = s.xm_banks

CarryIn == IF fx.carry THEN 1 ELSE 0

NovaShiftStep ==
    /\ Stepped
    /\ Core.stage = "done"
    /\ hist.pre.dns
    /\ Core.mc.f1 \in {F1.LLSH1, F1.LRSH1}
    /\ Core.mc.f2 # F2.EMU_MAGIC

Completed == Stepped /\ Core.stage = "done"

\* The microinstruction of the last step writes an R register.
WritesR == ~Core.mc.use_constant /\ Core.mc.bs = BS.LOAD_R

\* The microinstruction of the last step writes an S register.
WritesS ==
    /\ ~Core.mc.use_constant
    /\ Core.mc.ram_task
    /\ Core.mc.bs = BS.RAM_LOAD_S_LOCATION

\* The output of the shifter for the value L had before the last step.
ShifterOfOldL == do_shift(hist.pre, Core.mc, hist.pre.carry).res

\* R, S and T after the write-back of the microinstruction of the last
\* step to the registers of the state before it.
WrittenBack ==
    /\ sim.r = IF WritesR
               THEN [hist.pre.r EXCEPT ![Core.modified_rsel] = ShifterOfOldL]
               ELSE hist.pre.r
    /\ sim.s = IF WritesS
               THEN ArrPut(hist.pre.s,
                           sim.sr_banks[Core.mc.task] * NUM_R_REGISTERS
                           + Core.mc.rsel, hist.pre.m)
               ELSE hist.pre.s
    /\ sim.t = IF Core.mc.load_t
               THEN IF Core.mc.load_t_from_alu THEN Core.alu ELSE Core.bus
               ELSE hist.pre.t

\* C27 (as stated): in a step with BS=LOAD_R and use_constant clear,
\* R[modified RSEL] receives the shifter output computed from the value L
\* had before the step, even when the instruction loads L; for RAM tasks
\* with BS=RAM_LOAD_S_LOCATION the S register receives the M of before the
\* step; with use_constant set neither is written; T receives the ALU
\* output when load_t_from_alu is set and the bus otherwise; all other R
\* and S registers are unchanged.
C27_WriteBackOrdering == Stepped => WrittenBack

\* C27 (amended): the same of every step that completes; a step that
\* raises an error writes no R register, no S register and not T.
C27_WriteBackOrderingOfCompletedSteps ==
    Stepped =>
        IF Completed THEN WrittenBack
        ELSE /\ sim.r = hist.pre.r
             /\ sim.s = hist.pre.s
             /\ sim.t = hist.pre.t

\* A completed step that loads L with 1 and writes R3 with the shifted
\* old L, 0xAAAA << 1.
C27_Witness ==
    /\ Completed
    /\ WritesR
    /\ Core.mc.load_l
    /\ hist.pre.l = 43690
    /\ sim.l = 1
    /\ sim.r[3] = 21844

\* L, M and aluC0 after the write-back of the microinstruction of the last
\* step to the registers of the state before it.
LoadedL ==
    IF Core.mc.load_l
    THEN /\ sim.l = Core.alu
         /\ sim.aluC0 = Core.alu_carry
         /\ sim.m = IF hist.pre.ctask = TASK.EMULATOR
                    THEN Core.alu ELSE hist.pre.m
    ELSE /\ sim.l = hist.pre.l
         /\ sim.aluC0 = hist.pre.aluC0
         /\ sim.m = hist.pre.m

\* C28 (as stated): a step whose load_l flag is set sets L to the ALU
\* output and aluC0 to the ALU carry, and sets M to the ALU output iff
\* ctask = EMULATOR; in another task M is unchanged, and with load_l clear
\* L, M and aluC0 are unchanged.
C28_LoadL == Stepped => LoadedL

\* C28 (amended): the same of every step that completes; a step that
\* raises an error leaves L, M and aluC0 unchanged.
C28_LoadLOfCompletedSteps ==
    Stepped =>
        IF Completed THEN LoadedL
        ELSE /\ sim.l = hist.pre.l
             /\ sim.aluC0 = hist.pre.aluC0
             /\ sim.m = hist.pre.m

\* A completed step of a task other than the emulator that loads L and
\* leaves a different value in M.
C28_Witness ==
    /\ Completed
    /\ Core.mc.load_l
    /\ hist.pre.ctask # TASK.EMULATOR
    /\ sim.l = Core.alu
    /\ sim.m = hist.pre.m
    /\ sim.m # sim.l

\* The ALU function codes of the microcode format.
AluCodes == {ALU[k] : k \in DOMAIN ALU}

\* The last operation was a step, from a state without error, of a
\* microinstruction whose ALUF is no ALU function.
UndefinedAlufStep == Stepped /\ hist.pre.mir.aluf \notin AluCodes

\* C29: a step whose ALUF is not a defined ALU function sets the error
\* flag and has no F1 or F2 side effect, writes no register back and
\* leaves task_mpc, mir, mpc, ctask and cycle alone: but for the error
\* flag the state is the one before the step, up to mem_which, which a
\* read of the memory data on the bus toggles.
C29_UndefinedAlufIsFatal ==
    UndefinedAlufStep =>
        /\ sim.error
        /\ sim = [hist.pre EXCEPT !.error = TRUE,
                                  !.mem_which = sim.mem_which]
        /\ sim.mem_which # hist.pre.mem_which =>
              hist.pre.mir.bs = BS.READ_MD

\* A step of a task other than the emulator whose word has an undefined
\* ALUF, F1=BLOCK and load_l: the error is raised and the pending bit of
\* the task is still set.
C29_Witness ==
    /\ UndefinedAlufStep
    /\ hist.pre.mir.f1 = F1.BLOCK
    /\ hist.pre.mir.load_l
    /\ hist.pre.ctask # TASK.EMULATOR
    /\ Bit(sim.pending, hist.pre.ctask) = 1
    /\ sim.error

\* The pending task of highest priority before the last step.
HighestPendingBefore ==
    CHOOSE task \in PendingTasks(hist.pre) :
        \A other \in PendingTasks(hist.pre) : other <= task

\* C30: ctask after a step that executes neither F1=BLOCK nor F1=TASK is
\* ctask before it, whatever pending bits were raised; ctask changes only
\* at the end of a step that executed F1=TASK while a different task was
\* the pending one of highest priority, and then to that task.
C30_CooperativeScheduling ==
    hist.op = "step" =>
        /\ Core.mc.f1 \notin {F1.BLOCK, F1.TASK} =>
              sim.ctask = hist.pre.ctask
        /\ sim.ctask # hist.pre.ctask =>
              /\ Completed
              /\ Core.mc.f1 = F1.TASK
              /\ PendingTasks(hist.pre) # {}
              /\ HighestPendingBefore # hist.pre.ctask
              /\ sim.ctask = HighestPendingBefore

\* A step without BLOCK or TASK that completed in the emulator task while
\* the pending bit of a task of higher priority was raised.
C30_Witness ==
    /\ Completed
    /\ Core.mc.f1 \notin {F1.BLOCK, F1.TASK}
    /\ hist.pre.ctask = TASK.EMULATOR
    /\ TASK.ETHERNET \in PendingTasks(hist.pre)
    /\ sim.ctask = TASK.EMULATOR

\* ring_start and ring_end are within their bounds.
RingBounds ==
    /\ 0 <= udp.utrp.ring_start
    /\ udp.utrp.ring_start < UDP_RING_BUFFER_SIZE
    /\ udp.utrp.ring_start <= udp.utrp.ring_end
    /\ udp.utrp.ring_end - udp.utrp.ring_start <= UDP_RING_BUFFER_SIZE

\* Byte i of ring_buf belongs to a packet stored and not yet taken.
Unread(i) ==
    (i - udp.utrp.ring_start) % UDP_RING_BUFFER_SIZE
        < udp.utrp.ring_end - udp.utrp.ring_start

\* A step that writes ring_buf leaves the unread bytes as they are.
UnreadKept ==
    udp'.utrp.ring_buf # udp.utrp.ring_buf =>
        \A i \in DOMAIN udp.utrp.ring_buf :
            Unread(i) => udp'.utrp.ring_buf[i] = udp.utrp.ring_buf[i]

\* C31: in every state of every interleaving of the two threads
\* 0 <= ring_start < 8192, ring_start <= ring_end and
\* ring_end - ring_start <= 8192; the receive thread is at recvfrom() only
\* with at least 1024 bytes free, it never ends with 'not enough space',
\* and no step overwrites a byte of a stored, unread packet.
C31_RingNeverOverflows ==
    /\ [](/\ RingBounds
          /\ udp.rt.pc = "recv" => free_size(udp.utrp) >= UDP_PACKET_SIZE
          /\ udp.rt.why # "not enough space")
    /\ [][UnreadKept]_vars

\* The ring is full after the receive thread stored a frame in it, a read
\* frame is held by the CPU thread and another datagram waits at the
\* socket while the thread delays.
C31_Witness ==
    /\ free_size(udp.utrp) = 0
    /\ udp.utrp.ring_end > UDP_RING_BUFFER_SIZE
    /\ udp.delivered = 2
    /\ udp.sock # <<>>
    /\ udp.rt.pc = "lock1"

\* psim_simulate runs for the command nt and no breakpoint the user
\* created is enabled: only slot 0 can stop the run.
NextTaskRun ==
    /\ ps.stage = "debug"
    /\ ps.pc = "simulate"
    /\ ps.last.cmd = "nt"
    /\ \A num \in CreatedSlots(ps.bps) : ~ps.bps[num].enable

\* C32: the run started by 'nt [task]' stops right after the first step in
\* which ctask changes (with a task argument, only when the new ctask is
\* that task), and it does not stop at a step in which the running task
\* stays the same.
C32_NextTaskStopsAtTaskSwitch ==
    [][(NextTaskRun /\ hist'.steps = hist.steps + 1)
          => ((ps'.pc = "head")
                <=> /\ sim'.ctask # sim.ctask
                    /\ ps.bps[0].task \in {255, sim'.ctask})]_vars

\* The calls a run makes when none fails, from the options alone.
RequestedCalls(opts) ==
    <<"fs_create", "fs_load_image", "fs_check_integrity">>
    \o (IF opts.extract
        THEN <<IF opts.scavenge THEN "fs_scavenge_file" ELSE "fs_find_file",
               "fs_extract_file">>
        ELSE <<>>)
    \o (IF opts.list THEN <<"print_files">> ELSE <<>>)
    \o (IF opts.dir
        THEN <<IF opts.scavenge THEN "fs_scavenge_file" ELSE "fs_find_file",
               "is_directory", "print_directory">>
        ELSE <<>>)
    \o (IF opts.replace
        THEN <<"fs_find_file", "fs_replace_file", "fs_save_image">>
        ELSE <<>>)

CallNames(log) == [i \in DOMAIN log |-> log[i].name]

\* C33: adar saves the disk image only in a run where a replace was
\* requested and every call before the save (load, integrity check, each
\* requested operation, the find and the replace) succeeded; a failed call
\* is the last call of the run, which returns 1; a run without failures
\* makes all requested calls and returns 0.
C33_SaveOnlyAfterSuccess ==
    ps.stage = "adar" =>
       /\ CallNames(ps.log)
             = SubSeq(RequestedCalls(ps.opts), 1, Len(ps.log))
       /\ \A i \in DOMAIN ps.log :
             /\ ps.log[i].name = "fs_save_image"
                   => /\ ps.opts.replace
                      /\ i = Len(RequestedCalls(ps.opts))
                      /\ \A j \in 1..(i - 1) : ps.log[j].ok
             /\ ~ps.log[i].ok
                   => /\ i = Len(ps.log)
                      /\ ps.pc = "exit" /\ ps.status = 1
       /\ ps.pc = "exit"
             => /\ ps.status \in {0, 1}
                /\ ps.status = 0
                      <=> /\ \A i \in DOMAIN ps.log : ps.log[i].ok
                          /\ Len(ps.log) = Len(RequestedCalls(ps.opts))
                /\ ps.destroyed

C33_Witness ==
    /\ ps.stage = "adar" /\ ps.pc = "exit" /\ ps.status = 0
    /\ ps.opts.extract /\ ps.opts.list /\ ps.opts.dir /\ ps.opts.replace
    /\ ps.log[Len(ps.log)].name = "fs_save_image"

\* The word the two bytes of rx_buf at index i and i + 1 hold.
RxWord(i) ==
    BufGet(udp.utrp.rx_buf, i, udp.utrp.heap) * 256
       + BufGet(udp.utrp.rx_buf, i + 1, udp.utrp.heap)

\* C34: rx_pos is even and at most rx_len.  A call of trp_get_rx_data on
\* an exhausted packet returns 0 and changes nothing; the first call on a
\* packet returns the word behind the 2-byte prefix and leaves rx_pos = 4,
\* every later call returns the word at rx_pos and advances by 2; the
\* bytes read lie below rx_len.
C34_RxCursor ==
    /\ [](/\ udp.utrp.rx_pos % 2 = 0
          /\ udp.utrp.rx_pos # 1
          /\ udp.utrp.rx_pos <= udp.utrp.rx_len)
    /\ [][GetRxDataCall =>
            IF udp.utrp.rx_pos >= udp.utrp.rx_len
            THEN udp'.utrp = udp.utrp /\ ps'.data = 0
            ELSE LET at == IF udp.utrp.rx_pos = 0 THEN 2
                           ELSE udp.utrp.rx_pos
                 IN  /\ udp.utrp.rx_pos # 2
                     /\ at + 1 < udp.utrp.rx_len
                     /\ ps'.data = RxWord(at)
                     /\ udp'.utrp = [udp.utrp EXCEPT !.rx_pos = at + 2]]_vars

C34_Witness ==
    /\ ps.stage = "rx" /\ udp.cpu.op = "get_rx_data"
    /\ udp.utrp.rx_len = 6 /\ udp.utrp.rx_pos = 6
    /\ udp.utrp.heap = 165 /\ ps.data = 0

\* The word v that an access of the loading task read at address a before
\* the step: a bank register with the upper 12 bits set for the 16
\* addresses from XM_BANK_START, the memory word of the task's bank for
\* every other address.
ReadAt(a, v) ==
    LET ext == hist.pre.sys_type # SYS.ALTO_I /\ Core.mc.f2 = F2.STORE_MD
    IN  IF BankRegister(a)
        THEN v = BitOr(65520, hist.pre.xm_banks[a - XM_BANK_START])
        ELSE v = ArrGet(hist.pre.mem,
                        <<bank_number(hist.pre, Core.mc.task, ext), a>>)

\* C35: simulator_read and simulator_write take an address for a bank
\* register only for the 16 addresses XM_BANK_START .. XM_BANK_START + 15,
\* for the address of F1=LOAD_MAR and for its paired address: a read of a
\* bank register returns the stored value with the upper 12 bits set, a
\* read of any other address returns the memory word, and no access
\* reaches the word behind the 16 entries of xm_banks.
C35_BankRegisterRange ==
    /\ (Stepped /\ mar_loaded(Core)) =>
          /\ ReadAt(Core.alu, sim.mem_low)
          /\ ReadAt(PairOf(hist.pre, Core.alu), sim.mem_high)
    /\ sim.xm_banks[NUM_BANK_SLOTS] = hist.pre.xm_banks[NUM_BANK_SLOTS]

\* C36: every microinstruction is executed under the task it was fetched
\* for: after a step that completes, the word in mir is the word of the
\* microcode store at mpc, and mpc is the address task_mpc held for the
\* task that is now the current one, also when the step switched tasks.
C36_MirBelongsToCurrentTask ==
    Completed =>
       /\ sim.mpc \in DOMAIN microcode
       /\ sim.mir = microcode[sim.mpc]
       /\ sim.mpc = hist.pre.task_mpc[sim.ctask]

\* C37: udp_transport_destroy releases nothing the receive thread can
\* still use: when the socket is closed or the buffers are freed, the
\* thread function has returned.
C37_ThreadStoppedBeforeRelease ==
    (udp.res.sockfd = "closed" \/ udp.res.bufs = "freed")
        => udp.rt.pc = "returned"

\* The packets the bytes of the ring from position pos up to position end
\* hold, oldest first; positions count on beyond the end of the buffer.
RECURSIVE RingPackets(_, _, _)
RingPackets(utrp, pos, end) ==
    IF pos >= end THEN <<>>
    ELSE LET len == 2 * (be16(utrp.ring_buf, pos % UDP_RING_BUFFER_SIZE,
                              utrp.heap) + 2)
         IN  <<[k \in 0..(len - 1) |->
                  BufGet(utrp.ring_buf, (pos + k) % UDP_RING_BUFFER_SIZE,
                         utrp.heap)]>>
             \o RingPackets(utrp, pos + len, end)

\* trp_receive() has taken the first part of a packet that lies across the
\* end of the buffer, or that ends there.
Wrapped(d) == d.cpu.pc = "rcv_body2" /\ d.cpu.pos > 0

\* The packets stored and not yet received: those from ring_start to
\* ring_end, without the part of a packet the receive thread is storing
\* and with the packet trp_receive() is taking.
Fifo(d) ==
    RingPackets(d.utrp,
                IF Wrapped(d) THEN UDP_RING_BUFFER_SIZE - d.cpu.pos
                ELSE d.utrp.ring_start,
                (IF d.rt.pc = "store2" THEN d.utrp.ring_end - d.rt.pos
                 ELSE d.utrp.ring_end)
                + (IF Wrapped(d) THEN UDP_RING_BUFFER_SIZE ELSE 0))

\* The first n bytes of a buffer.
Bytes(buf, n, heap) == [k \in 0..(n - 1) |-> BufGet(buf, k, heap)]

\* The receive thread completes the store of the packet in pkt_buf.
StoreDone == udp.rt.pc = "store2" /\ udp'.rt.pc = "unlock2"

\* trp_receive() completes the copy of a packet into rx_buf.
TakeDone == udp.cpu.pc = "rcv_body2" /\ udp'.cpu.pc = "rcv_unlock"

\* trp_enable_rx(FALSE) empties the ring.
Disabling == udp.cpu.pc = "en_body" /\ ~udp.cpu.enable

\* C38: while reception stays enabled the ring is a lossless FIFO of whole
\* packets: a store appends the packet of pkt_buf, trp_receive() takes the
\* oldest packet byte for byte, removes it and reports its length, also
\* when the packet lies across the end of the buffer or ends there, and
\* no other step of either thread changes the packets held; trp_receive()
\* does not fail, and a call while a packet is held consumes nothing.
C38_RingIsLosslessFifo ==
    /\ [][IF StoreDone
          THEN Fifo(udp') = Append(Fifo(udp),
                                   Bytes(udp.utrp.pkt_buf, udp.rt.len,
                                         udp.utrp.heap))
          ELSE IF TakeDone
          THEN LET held == Fifo(udp)
               IN  /\ held # <<>>
                   /\ Bytes(udp'.utrp.rx_buf, udp.cpu.len, udp.utrp.heap)
                         = Head(held)
                   /\ Fifo(udp') = Tail(held)
          ELSE IF Disabling THEN TRUE
          ELSE \/ /\ udp'.utrp.ring_buf = udp.utrp.ring_buf
                  /\ udp'.utrp.ring_start = udp.utrp.ring_start
                  /\ udp'.utrp.ring_end = udp.utrp.ring_end
                  /\ ~Wrapped(udp) /\ ~Wrapped(udp')
                  /\ udp.rt.pc # "store2" /\ udp'.rt.pc # "store2"
               \/ Fifo(udp') = Fifo(udp)]_vars
    /\ [][(udp.cpu.pc = "rcv_unlock" /\ udp'.cpu.pc = "idle") =>
             /\ udp'.utrp.rx_len = udp.cpu.len
             /\ udp'.utrp.rx_pos = 0
             /\ udp'.utrp.rx_buf = udp.utrp.rx_buf
             /\ udp'.cpu.plen = udp.cpu.len]_vars
    /\ [][(ReceiveEnter /\ udp.utrp.rx_len # 0) =>
             /\ udp'.utrp = udp.utrp
             /\ udp'.cpu.pc = "idle"
             /\ udp'.cpu.plen = udp.utrp.rx_len]_vars
    /\ [](udp.cpu.ret)

C38_Witness ==
    /\ ps.stage = "full" /\ ps.calls = 2
    /\ udp.cpu.pc = "idle" /\ udp.cpu.op = "receive"
    /\ udp.utrp.rx_len = UDP_PACKET_SIZE
    /\ BufGet(udp.utrp.rx_buf, 3, udp.utrp.heap) = 2
    /\ udp.utrp.ring_start = UDP_PACKET_SIZE - 4
    /\ udp.utrp.ring_end - udp.utrp.ring_start
          = (MaxStored - 1) * UDP_PACKET_SIZE

\* C39: the sender and the receiver agree on the largest frame: the
\* receive thread rejects no frame that trp_append_tx() accepted and
\* trp_send() transmitted, trp_append_tx() accepts no more words than the
\* receiver takes (MaxPayload), and it writes inside the UDP_PACKET_SIZE
\* bytes of tx_buf.
C39_SenderAndReceiverAgree ==
    udp.mutex # "none" =>
       /\ udp.rt.why = "none"
       /\ udp.appended <= MaxPayload
       /\ udp.peer.tx_pos <= UDP_PACKET_SIZE
       /\ DOMAIN udp.peer.tx_buf \subseteq 0..(UDP_PACKET_SIZE - 1)

\* psim_simulate runs for the command c.
ContinueRun == ps.stage = "debug" /\ ps.pc = "simulate" /\ ps.last.cmd = "c"

\* C40: a run started by the continue command ends once the simulator is
\* in the error state: an iteration of psim_simulate that calls
\* simulator_step on the halted CPU is the last one, the function returns
\* to the debugger instead of going into another iteration.
C40_ContinueStopsOnError ==
    [][(ContinueRun /\ sim.error /\ hist'.steps = hist.steps + 1)
          => ps'.pc = "head"]_vars
=============================================================================
